---------------------------- MODULE Spec2Model ----------------------------
(***************************************************************************)
(* A model of hermes: the Envelope codec and the typed payloads            *)
(* (hermes/structs.py), the Receiver (hermes/receiver.py), the Publisher    *)
(* (hermes/publisher.py), the PostOffice proxy (hermes/proxy.py), the Node  *)
(* that starts and stops its facilities and relays what it receives       *)
(* (hermes/node.py), and the methods of the typed payloads called one at a *)
(* time on sample arguments.                                               *)
(*                                                                         *)
(* Python values are tagged records [k |-> kind, v |-> content]; Python    *)
(* strings are TLA+ strings; time.time() is the integer clock `now`.       *)
(***************************************************************************)
EXTENDS Integers, Sequences, FiniteSets, TLC

VARIABLES
    now,        \* time.time(), in whole seconds
    \* ---- codec harness: one envelope encoded and decoded again
    cEnv,       \* the Envelope object handed to convert_to_frames
    cSent,      \* that Envelope as it was constructed
    cFrames,    \* the frames convert_to_frames returned
    cOut,       \* what load_from_frames did with them
    cPc,        \* "new", "encoded", "decoded"
    cAt,        \* the clock value at the encode call
    \* ---- Receiver
    rTopics,    \* Receiver._topics
    rExchanges, \* Receiver._exchanges, a set of origins; {} when none was given
    rThread,    \* the Receiver's thread: "new", "started", "loop", "exited", "died"
    rRunning,   \* Receiver._running (the Event's flag)
    rSock,      \* Receiver.sock: "None", "connected"
    rInbox,     \* messages queued in the SUB socket, oldest first
    rQ,         \* Receiver.q
    rLast,      \* what the run loop did in its last iteration
    rStopped,   \* the run loop has taken the staleness exit
    rDropped,   \* the run loop has skipped, for its origin, an envelope older than the timeout
    rAges,      \* the values of recv_at - float(envelope.ts) the run loop has compared with the timeout
    rStop,      \* the caller inside stop(): "idle", "joining", "returned", "RuntimeError"
    aPc,        \* the application thread: "idle", "get" (inside recv()), "ret" (recv() returned)
    aRet,       \* what the last recv() returned
    sent,       \* the number of messages peers have sent
    netLast,    \* the topic of the last message a peer sent, and whether the SUB socket took it
    \* ---- Publisher
    pThread,    \* the Publisher's thread: "new", "started", "setup", "died"
    pRunning,   \* Publisher._running
    pSock,      \* Publisher.sock: "None", "open", "closed"
    pCall,      \* the caller inside publish(): "idle", "sending"
    pRet,       \* what the last publish() call returned
    pEnv,       \* the envelope of the last publish() call
    pAt,        \* Publisher.sock, the thread's state, the state of stop() and the envelope when publish() was called
    pCalls,     \* the number of publish() calls made
    pStop,      \* the caller inside stop(): "idle", "joining", "returned", "RuntimeError"
    \* ---- PostOffice (the broker)
    bDebug,     \* whether PostOffice._debug_addr was given
    bThread,    \* the PostOffice's thread: "new", "started", "xpub", "xsub", "relay",
                \* "exited", "died" (ended by an exception), "interrupted"
    bCtx,       \* PostOffice.ctx: "open", "terminated"
    bXpub,      \* the XPUB socket facing subscribers: "none", "open", "closed"
    bXsub,      \* the XSUB socket facing publishers: "none", "open", "closed"
    bDbg,       \* the debug PUB socket: "none", "open", "closed"
    bStop,      \* the caller inside stop(): "idle", "term", "joining", "returned", "RuntimeError"
    bIn,        \* messages from publishers queued in the XSUB socket, oldest first
    bOut,       \* messages the relay has sent on the XPUB socket, oldest first
    bCap,       \* messages the relay has sent on the debug socket, oldest first
    bSubIn,     \* subscription messages from subscribers queued in the XPUB socket
    bSubOut,    \* subscription messages the relay has sent upstream on the XSUB socket
    bArrived,   \* the number of messages that have reached the broker
    \* ---- Node
    nName,      \* Node.name
    nKinds,     \* what Node.receiver and Node.publisher are: "None", "Invalid" (a str),
                \* "Receiver" (the Receiver above) or "Publisher" (the Publisher above)
    nRunning,   \* Node._running
    nPc,        \* the caller inside the Node: "idle", "starting", "stopping"
    nIdx,       \* the index in Node._facilities the loop of start/stop has reached
    nRet,       \* the last Node call and its outcome
    nLog,       \* the last message logged with log.error
    nDone,      \* the Node calls made so far, of "start" and "stop"
    nCall,      \* the channel and the data of the last Node.publish call
    nRun,       \* the thread inside Node.run: "idle" (not called), "test" (at the while
                \* condition), "recv" (between the call of recv and that of publish),
                \* "returned", "raised"
    \* ---- payload harness: one call of a constructor or method of hermes.structs
    sOp,        \* the call: "add", "sub", "merge", "book", "from_quote", "priced",
                \* "trades", "serialize", "load"; "none" where no call is made
    sIn,        \* its arguments
    sOut        \* Nothing before the call; then what it returned or raised

codecVars == <<cEnv, cSent, cFrames, cOut, cPc, cAt>>
recvVars  == <<rTopics, rExchanges, rThread, rRunning, rSock, rInbox, rQ, rLast,
               rStopped, rDropped, rAges, rStop, aPc, aRet, sent, netLast>>
pubVars   == <<pThread, pRunning, pSock, pCall, pRet, pEnv, pAt, pCalls, pStop>>
brokerVars == <<bDebug, bThread, bCtx, bXpub, bXsub, bDbg, bStop, bIn, bOut, bCap,
                bSubIn, bSubOut, bArrived>>
nodeVars  == <<nName, nKinds, nRunning, nPc, nIdx, nRet, nLog, nDone, nCall, nRun>>
structVars == <<sOp, sIn, sOut>>
vars      == <<now, codecVars, recvVars, pubVars, brokerVars, nodeVars, structVars>>

-----------------------------------------------------------------------------
(* Bounds of the model *)

MaxTime == 3        \* the clock runs from 1 to MaxTime
MaxSent == 2        \* messages peers send to the Receiver
MaxCalls == 3       \* publish() calls
MaxRelay == 3       \* messages (data and subscriptions) that reach the broker

-----------------------------------------------------------------------------
(* Python values *)

None      == [k |-> "none", v |-> 0]
Str(s)    == [k |-> "str", v |-> s]
Num(n)    == [k |-> "num", v |-> n]
List(xs)  == [k |-> "list", v |-> xs]
Tuple(xs) == [k |-> "tuple", v |-> xs]
Dict(kvs) == [k |-> "dict", v |-> kvs]           \* kvs: a sequence of [key, val]
Obj(cls, attrs) == [k |-> "obj", v |-> [cls |-> cls, attrs |-> attrs]]

Ok(v)  == [k |-> "ok", v |-> v]
Exc(n) == [k |-> "exc", v |-> n]

\* bool(v)
Truthy(v) ==
    CASE v.k = "none" -> FALSE
      [] v.k = "num" -> v.v /= 0
      [] v.k = "str" -> v.v /= ""
      [] v.k \in {"list", "tuple", "dict"} -> Len(v.v) > 0
      [] OTHER -> TRUE

\* repr(v): a str between quotes, a container with the repr of its items
RECURSIVE py_repr(_)
RECURSIVE ReprItems(_, _)
py_repr(v) ==
    CASE v.k = "str" -> "'" \o v.v \o "'"
      [] v.k = "num" -> ToString(v.v)
      [] v.k = "none" -> "None"
      [] v.k = "list" -> "[" \o ReprItems(v, 1) \o "]"
      [] v.k = "tuple" ->
            "(" \o ReprItems(v, 1) \o (IF Len(v.v) = 1 THEN "," ELSE "") \o ")"
      [] v.k = "dict" -> "{" \o ReprItems(v, 1) \o "}"

\* The items of container v from the i-th on, separated by ", "
ReprItems(v, i) ==
    IF i > Len(v.v) THEN ""
    ELSE (IF v.k = "dict"
          THEN "'" \o v.v[i].key \o "': " \o py_repr(v.v[i].val)
          ELSE py_repr(v.v[i]))
         \o (IF i < Len(v.v) THEN ", " ELSE "")
         \o ReprItems(v, i + 1)

\* str(v): a str is itself, a container gives its repr
py_str(v) ==
    CASE v.k = "str" -> v
      [] v.k = "num" -> Str(ToString(v.v))
      [] v.k = "none" -> Str("None")
      [] v.k \in {"list", "tuple", "dict"} -> Str(py_repr(v))

\* a + b and a - b on str and numbers: + concatenates two str, - has no
\* meaning on them
py_add(a, b) ==
    IF a.k = "str" /\ b.k = "str" THEN Ok(Str(a.v \o b.v))
    ELSE IF a.k = "num" /\ b.k = "num" THEN Ok(Num(a.v + b.v))
    ELSE Exc("TypeError")

py_sub(a, b) ==
    IF a.k = "num" /\ b.k = "num" THEN Ok(Num(a.v - b.v))
    ELSE Exc("TypeError")

\* ord(c) for the characters of the sample strings
CharCode(c) ==
    CASE c = "-" -> 45 [] c = "." -> 46
      [] c = "0" -> 48 [] c = "1" -> 49 [] c = "2" -> 50 [] c = "3" -> 51
      [] c = "4" -> 52 [] c = "5" -> 53 [] c = "6" -> 54 [] c = "7" -> 55
      [] c = "8" -> 56 [] c = "9" -> 57
      [] c = "N" -> 78 [] c = "e" -> 101 [] c = "n" -> 110 [] c = "o" -> 111

\* a < b on two str: by the first character that differs
RECURSIVE StrLess(_, _)
StrLess(a, b) ==
    IF a = "" THEN b /= ""
    ELSE IF b = "" THEN FALSE
    ELSE LET ca == CharCode(SubSeq(a, 1, 1))
             cb == CharCode(SubSeq(b, 1, 1))
         IN  IF ca /= cb THEN ca < cb
             ELSE StrLess(SubSeq(a, 2, Len(a)), SubSeq(b, 2, Len(b)))

\* a < b on two str or two numbers
py_less(a, b) ==
    IF a.k = "str" THEN StrLess(a.v, b.v) ELSE a.v < b.v

\* max(xs, key=...) and min(xs, key=...), as the index of the item returned:
\* the first of the greatest (smallest) keys
MaxIndex(keys) ==
    CHOOSE i \in 1..Len(keys) :
        /\ \A j \in 1..Len(keys) : ~py_less(keys[i], keys[j])
        /\ \A j \in 1..(i - 1) : py_less(keys[j], keys[i])

MinIndex(keys) ==
    CHOOSE i \in 1..Len(keys) :
        /\ \A j \in 1..Len(keys) : ~py_less(keys[j], keys[i])
        /\ \A j \in 1..(i - 1) : py_less(keys[i], keys[j])

-----------------------------------------------------------------------------
(* json.dumps and json.loads: a JSON document is a tagged record too *)

JStr(s)   == [k |-> "jstr", v |-> s]
JNum(n)   == [k |-> "jnum", v |-> n]
JNull     == [k |-> "jnull", v |-> 0]
JArr(xs)  == [k |-> "jarr", v |-> xs]
JObj(kvs) == [k |-> "jobj", v |-> kvs]

RECURSIVE json_dumps(_)
json_dumps(v) ==
    CASE v.k = "str" -> JStr(v.v)
      [] v.k = "num" -> JNum(v.v)
      [] v.k = "none" -> JNull
      [] v.k \in {"list", "tuple"} ->
            JArr([i \in 1..Len(v.v) |-> json_dumps(v.v[i])])
      [] v.k = "dict" ->
            JObj([i \in 1..Len(v.v) |->
                    [key |-> v.v[i].key, val |-> json_dumps(v.v[i].val)]])

RECURSIVE json_loads(_)
json_loads(j) ==
    CASE j.k = "jstr" -> Str(j.v)
      [] j.k = "jnum" -> Num(j.v)
      [] j.k = "jnull" -> None
      [] j.k = "jarr" -> List([i \in 1..Len(j.v) |-> json_loads(j.v[i])])
      [] j.k = "jobj" ->
            Dict([i \in 1..Len(j.v) |->
                    [key |-> j.v[i].key, val |-> json_loads(j.v[i].val)]])

\* A frame on the wire: the UTF-8 bytes of a JSON document, or bytes that are
\* no JSON document.
Frame(j)    == [k |-> "json", v |-> j]
RawFrame(s) == [k |-> "raw", v |-> s]

\* The bytes of a frame, as far as a SUB socket's prefix filter reads them: a
\* JSON string is written between double quotes.
FrameBytes(f) ==
    CASE f.k = "raw" -> f.v
      [] f.k = "json" /\ f.v.k = "jstr" -> "\"" \o f.v.v \o "\""

-----------------------------------------------------------------------------
(* The typed payloads: Message and its subclasses *)

\* type(self).__mro__[:-1], the class first
MRO(cls) ==
    CASE cls = "Message"       -> <<"Message">>
      [] cls = "PricedMessage" -> <<"PricedMessage", "Message">>
      [] cls = "Quotes"        -> <<"Quotes", "Message">>
      [] cls = "Quote"         -> <<"Quote", "PricedMessage", "Message">>
      [] cls = "Order"         -> <<"Order", "PricedMessage", "Message">>
      [] cls = "Trades"        -> <<"Trades", "Message">>
      [] cls = "Candle"        -> <<"Candle", "Message">>
      [] cls = "TopLevel"      -> <<"TopLevel", "Message">>
      [] cls = "Book"          -> <<"Book", "Message">>
      [] cls = "RawBook"       -> <<"RawBook", "Book", "Message">>

\* cls.__slots__ (Quotes declares none and inherits Message's)
ClassSlots(cls) ==
    CASE cls = "Message"       -> <<"dtype", "ts">>
      [] cls = "PricedMessage" -> <<"pair", "price", "size", "side", "api_ts">>
      [] cls = "Quotes"        -> <<"dtype", "ts">>
      [] cls = "Quote"         -> <<"uid">>
      [] cls = "Order"         -> <<"flags">>
      [] cls = "Trades"        -> <<"trades">>
      [] cls = "Candle"        -> <<"pair", "open", "high", "low", "close", "frame">>
      [] cls = "TopLevel"      -> <<"bid", "ask", "pair">>
      [] cls = "Book"          -> <<"bids", "asks", "pair">>
      [] cls = "RawBook"       -> <<>>

\* The slots gathered class first, bases after
RECURSIVE SlotsOver_class_first(_)
SlotsOver_class_first(mro) ==
    IF mro = <<>> THEN <<>>
    ELSE ClassSlots(Head(mro)) \o SlotsOver_class_first(Tail(mro))

RECURSIVE SlotsOver(_)
SlotsOver(mro) ==
    IF mro = <<>> THEN <<>>
    ELSE SlotsOver(Tail(mro)) \o ClassSlots(Head(mro))

\* Message._slots: the __slots__ of the class and its bases, base class first
Message_slots(cls) == SlotsOver(MRO(cls))

\* Message.__init__
Message_init(cls, ts, t) ==
    [dtype |-> Str(cls), ts |-> IF Truthy(ts) THEN ts ELSE Num(t)]

Sides == {"bid", "ask", "buy", "sell", "N/A"}

\* PricedMessage.__init__ without the test of side
PricedMessage_init_any_side(cls, pair, price, size, side, api_ts, ts, t) ==
    Ok(Message_init(cls, ts, t) @@
        [pair |-> pair, price |-> py_str(price), size |-> py_str(size),
         side |-> side, api_ts |-> IF Truthy(api_ts) THEN api_ts ELSE Num(t)])

\* PricedMessage.__init__: the attributes, or the exception it raises
PricedMessage_init(cls, pair, price, size, side, api_ts, ts, t) ==
    IF ~(side.k = "str" /\ side.v \in Sides) THEN Exc("ValueError")
    ELSE Ok(Message_init(cls, ts, t) @@
            [pair |-> pair, price |-> py_str(price), size |-> py_str(size),
             side |-> side, api_ts |-> IF Truthy(api_ts) THEN api_ts ELSE Num(t)])

Quote_init(pair, price, size, side, uid, api_ts, ts, t) ==
    LET r == PricedMessage_init("Quote", pair, price, size, side, api_ts, ts, t)
    IN  IF r.k = "exc" THEN r ELSE Ok(Obj("Quote", r.v @@ [uid |-> uid]))

Order_init(pair, price, size, side, api_ts, ts, flags, t) ==
    LET r == PricedMessage_init("Order", pair, price, size, side, api_ts, ts, t)
    IN  IF r.k = "exc" THEN r ELSE Ok(Obj("Order", r.v @@ [flags |-> flags]))

\* Trades.__init__: trades is the sequence of the positional arguments
Trades_init(trades, ts, t) ==
    IF \E i \in 1..Len(trades) : Len(trades[i].v) /= 7 THEN Exc("AssertionError")
    ELSE Ok(Obj("Trades", Message_init("Trades", ts, t) @@
            [trades |-> List([i \in 1..Len(trades) |->
                List([j \in 1..Len(trades[i].v) |->
                    IF Truthy(trades[i].v[j]) THEN py_str(trades[i].v[j])
                    ELSE trades[i].v[j]])])]))

Candle_init(pair, open, high, low, close, ts, frame, t) ==
    Ok(Obj("Candle", Message_init("Candle", ts, t) @@
        [pair |-> pair, open |-> py_str(open), high |-> py_str(high),
         low |-> py_str(low), close |-> py_str(close), frame |-> frame]))

TopLevel_init(pair, bid, ask, ts, t) ==
    Ok(Obj("TopLevel", Message_init("TopLevel", ts, t) @@
        [bid |-> Tuple([i \in 1..Len(bid.v) |-> py_str(bid.v[i])]),
         ask |-> Tuple([i \in 1..Len(ask.v) |-> py_str(ask.v[i])]),
         pair |-> pair]))

\* format_quotes without the test of the levels' length
format_quotes_any_length(arity, iterable) ==
    IF iterable.k \notin {"list", "tuple"} THEN Exc("TypeError")
    ELSE IF \A i \in 1..Len(iterable.v) :
                 \A j \in 1..Len(iterable.v[i].v) : iterable.v[i].v[j].k = "str"
         THEN Ok(Tuple([i \in 1..Len(iterable.v) |-> Tuple(iterable.v[i].v)]))
         ELSE Exc("TypeError")

\* Book.format_quotes (arity 3) and RawBook.format_quotes (arity 4)
format_quotes(arity, iterable) ==
    IF iterable.k \notin {"list", "tuple"} THEN Exc("TypeError")
    ELSE IF /\ \A i \in 1..Len(iterable.v) : Len(iterable.v[i].v) = arity
            /\ \A i \in 1..Len(iterable.v) :
                 \A j \in 1..Len(iterable.v[i].v) : iterable.v[i].v[j].k = "str"
         THEN Ok(Tuple([i \in 1..Len(iterable.v) |-> Tuple(iterable.v[i].v)]))
         ELSE Exc("TypeError")

\* Book.__init__, and RawBook's, which differs in format_quotes alone
Book_init(cls, pair, bids, asks, ts, t) ==
    LET arity == IF cls = "RawBook" THEN 4 ELSE 3
        b == format_quotes(arity, bids)
        a == format_quotes(arity, asks)
    IN  IF b.k = "exc" THEN b
        ELSE IF a.k = "exc" THEN a
        ELSE Ok(Obj(cls, Message_init(cls, ts, t) @@
                    [bids |-> b.v, asks |-> a.v, pair |-> pair]))

\* Whether an instance has a __dict__: not when every class of its MRO
\* declares __slots__, and of the payload classes Quotes alone declares none
HasInstanceDict(obj) == obj.v.cls = "Quotes"

\* The body of Quote.__add__; IncompatibleSidesError is a name hermes.structs
\* neither defines nor imports
Quote_add(self, other, t) ==
    LET a == self.v.attrs
        b == other.v.attrs
    IN  IF b.side = a.side /\ a.price = b.price
        THEN LET size == py_add(a.size, b.size)
             IN  IF size.k = "exc" THEN size
                 ELSE Quote_init(a.pair, a.price, size.v, a.side, None, None, None, t)
        ELSE IF b.side /= a.side THEN Exc("NameError")
        ELSE Exc("ValueError")

\* The body of Quote.__sub__
Quote_sub(self, other, t) ==
    LET a == self.v.attrs
        b == other.v.attrs
    IN  IF b.side = a.side /\ a.price = b.price
        THEN LET size == py_sub(a.size, b.size)
             IN  IF size.k = "exc" THEN size
                 ELSE Quote_init(a.pair, a.price, size.v, a.side, None, None, None, t)
        ELSE IF b.side /= a.side THEN Exc("NameError")
        ELSE Exc("ValueError")

\* The wrapper function inside check_pairs, func named by the method it wraps
check_pairs_wrapper(func, self, other, t) ==
    IF self.v.attrs.pair /= other.v.attrs.pair THEN Exc("IncompatiblePairsError")
    ELSE IF func = "__add__" THEN Quote_add(self, other, t)
    ELSE Quote_sub(self, other, t)

\* functools.update_wrapper(wrapper, wrapped): sets __module__, __name__, ...
\* on wrapper and returns it; an instance without __dict__ takes no such
\* attribute
update_wrapper(wrapper) ==
    IF HasInstanceDict(wrapper) THEN Ok(wrapper) ELSE Exc("AttributeError")

\* What check_pairs(func) returns, called with one argument. `@wraps` above
\* `def wrapper` is functools.wraps(wrapper), a partial of update_wrapper with
\* wrapped=wrapper, and that is what check_pairs returns: calling it calls
\* update_wrapper(arg, wrapped=wrapper), and neither wrapper nor func runs
check_pairs(func, arg) == update_wrapper(arg)

\* `self + other`: type(self).__add__ is check_pairs(__add__), a partial and
\* so no descriptor: it is called with other alone
Quote_plus(self, other) == check_pairs("__add__", other)

\* `self - other`
Quote_minus(self, other) == check_pairs("__sub__", other)

\* Order.from_quote
Order_from_quote(quote, same_side, flags, t) ==
    LET q == quote.v.attrs
        side == IF same_side THEN q.side
                ELSE IF q.side = Str("ask") THEN Str("bid") ELSE Str("ask")
    IN  Order_init(q.pair, q.price, q.size, side, Num(t), None, flags, t)

\* Candle.merge: highs and lows are the str the constructor stored, so max
\* and min compare str
Candle_merge(self, others, t) ==
    LET cs == <<self>> \o others
        highs == [i \in 1..Len(cs) |-> cs[i].v.attrs.high]
        lows  == [i \in 1..Len(cs) |-> cs[i].v.attrs.low]
        tss   == [i \in 1..Len(cs) |-> cs[i].v.attrs.ts]
        last_candle  == cs[MaxIndex(tss)].v.attrs
        first_candle == cs[MinIndex(tss)].v.attrs
    IN  IF last_candle.frame.k /= "num" THEN Exc("TypeError")
        ELSE Candle_init(self.v.attrs.pair, first_candle.open,
                         highs[MaxIndex(highs)], lows[MinIndex(lows)],
                         last_candle.close, first_candle.ts,
                         Num((last_candle.ts.v - first_candle.ts.v)
                                + last_candle.frame.v), t)

\* The classes of hermes.structs that have an empty() static method
RegisteredTypes == {"Quote", "Order", "Trades", "Candle", "TopLevel", "Book", "RawBook"}

\* cls.empty()
Empty(cls, t) ==
    CASE cls = "Quote" ->
            Quote_init(None, None, None, Str("N/A"), None, None, None, t).v
      [] cls = "Order" ->
            Order_init(None, None, None, Str("N/A"), None, None, Dict(<<>>), t).v
      [] cls = "Trades" -> Trades_init(<<>>, None, t).v
      [] cls = "Candle" -> Candle_init(None, None, None, None, None, None, None, t).v
      [] cls = "TopLevel" -> TopLevel_init(None, Tuple(<<>>), Tuple(<<>>), None, t).v
      [] cls \in {"Book", "RawBook"} ->
            Book_init(cls, None, Tuple(<<>>), Tuple(<<>>), None, t).v

\* The position of slot s in a list of slots
RECURSIVE IndexOf(_, _)
IndexOf(s, slots) == IF Head(slots) = s THEN 1 ELSE 1 + IndexOf(s, Tail(slots))

\* Message.load with the type tag left out of the zip: every value lands one
\* slot early
Message_load_shifted(obj, data) ==
    LET slots == Message_slots(obj.v.cls)
    IN  Obj(obj.v.cls,
            [s \in DOMAIN obj.v.attrs |->
                IF IndexOf(s, slots) + 1 <= Len(data.v)
                THEN data.v[IndexOf(s, slots) + 1]
                ELSE obj.v.attrs[s]])

\* Message.load: zip(data, self._slots()) and setattr
Message_load(obj, data) ==
    LET slots == Message_slots(obj.v.cls)
    IN  Obj(obj.v.cls,
            [s \in DOMAIN obj.v.attrs |->
                IF IndexOf(s, slots) <= Len(data.v)
                THEN data.v[IndexOf(s, slots)]
                ELSE obj.v.attrs[s]])

\* Message.serialize: json.dumps of the attributes in _slots() order
Message_serialize(obj) ==
    LET slots == Message_slots(obj.v.cls)
    IN  json_dumps(List([i \in 1..Len(slots) |-> obj.v.attrs[slots[i]]]))

-----------------------------------------------------------------------------
(* The Envelope and its codec *)

\* Envelope.__init__
Envelope_init(topic, origin, data, ts, t) ==
    [topic |-> topic, origin |-> origin, data |-> data,
     ts |-> IF Truthy(ts) THEN ts ELSE Num(t)]

\* update_ts leaving the timestamp as it was
update_ts_keep(e, t) == e

\* Envelope.update_ts
update_ts(e, t) == [e EXCEPT !.ts = Num(t)]

\* Envelope.convert_to_frames: the frames it returns (topic, origin, data, ts);
\* the envelope itself becomes update_ts(e, t)
convert_to_frames(e, t) ==
    LET self == update_ts(e, t)
    IN  << Frame(json_dumps(self.topic)),
           Frame(json_dumps(self.origin)),
           IF self.data.k = "obj" THEN Frame(Message_serialize(self.data))
           ELSE Frame(json_dumps(self.data)),
           Frame(json_dumps(self.ts)) >>

\* data[0] in load_from_frames
FirstItem(data) ==
    CASE data.k = "list" ->
            IF Len(data.v) = 0 THEN Exc("IndexError") ELSE Ok(data.v[1])
      [] data.k = "str" ->
            IF data.v = "" THEN Exc("IndexError") ELSE Ok(Str(SubSeq(data.v, 1, 1)))
      [] data.k = "dict" -> Exc("KeyError")
      [] OTHER -> Exc("TypeError")

\* load_class_from_string: the attribute of hermes.structs named class_name,
\* .empty().load(data); the sample names hold no dot, so split(".") is one name
load_class_from_string(class_name, data, t) ==
    IF class_name.k = "str" /\ class_name.v \in RegisteredTypes
    THEN Ok(Message_load(Empty(class_name.v, t), data))
    ELSE Exc("AttributeError")

\* Envelope.load_from_frames: the Envelope, or the exception it raises
load_from_frames(frames, t) ==
    IF Len(frames) /= 4 THEN Exc("ValueError")
    ELSE IF \E i \in 1..4 : frames[i].k /= "json" THEN Exc("ValueError")
    ELSE LET topic  == json_loads(frames[1].v)
             origin == json_loads(frames[2].v)
             data   == json_loads(frames[3].v)
             ts     == json_loads(frames[4].v)
             data_dtype == FirstItem(data)
         IN  IF data_dtype.k = "exc" THEN data_dtype
             ELSE LET loaded == load_class_from_string(data_dtype.v, data, t)
                  IN  Ok(Envelope_init(topic, origin,
                            IF loaded.k = "ok" THEN loaded.v ELSE data, ts, t))

-----------------------------------------------------------------------------
(* Sample inputs *)

Topics  == {"quotes/ex1/NodeX", "testing"}
Origins == {"NodeX", "NodeY"}

PlainPayloads ==
    { Str("abc"), Str(""), Num(5), None,
      List(<<Str("this"), Str("is"), Str("data")>>),
      List(<<Str("Quote"), Str("x")>>),
      List(<<Num(1), Num(2)>>),
      List(<<>>),
      Dict(<<[key |-> "a", val |-> Num(1)]>>) }

Level3 == List(<<Str("1000"), Str("15"), Str("121314255.00")>>)
Level4 == List(<<Str("1000"), Str("15"), Str("121314255.00"), Str("id-111-1")>>)

TypedPayloads(t) ==
    { Quote_init(Str("BTCUSD"), Str("1000"), Str("10"), Str("bid"), None, None, None, t).v,
      Quote_init(Str("BTCUSD"), Num(1000), Num(10), Str("ask"), Str("id7"), Num(1), Num(1), t).v,
      Order_init(Str("BTCUSD"), Num(1000), Num(10), Str("bid"), None, None,
                 Dict(<<[key |-> "post", val |-> Num(1)]>>), t).v,
      Trades_init(<< Tuple(<<Str("BTCUSD"), Num(1000), Num(10), Str("bid"),
                             Str("UID1000"), None, Num(22)>>) >>, None, t).v,
      Candle_init(Str("BTCUSD"), Num(100), Num(1000), Num(0), Num(50), None, Num(60), t).v,
      TopLevel_init(Str("BTCUSD"), List(<<Str("1000"), Num(11), Str("442345441")>>),
                    List(<<Str("999"), Num(142), Str("415251525")>>), None, t).v,
      Book_init("Book", Str("BTCUSD"), List(<<Level3>>), List(<<Level3, Level3>>), None, t).v,
      Book_init("RawBook", Str("BTCUSD"), List(<<Level4>>), List(<<>>), None, t).v }

SampleEnvelopes(t) ==
    { Envelope_init(Str(topic), Str(origin), data, None, t) :
        topic \in Topics, origin \in Origins,
        data \in PlainPayloads \cup TypedPayloads(t) }

-----------------------------------------------------------------------------
(* Initial values of the three parts *)

Nothing == [k |-> "nothing", v |-> 0]

CodecInit(e) ==
    /\ cEnv = e
    /\ cSent = e
    /\ cFrames = <<>>
    /\ cOut = Nothing
    /\ cPc = "new"
    /\ cAt = 0

\* Receiver.__init__
Receiver_init(topics, exchanges) ==
    /\ rTopics = topics
    /\ rExchanges = exchanges
    /\ rThread = "new"
    /\ rRunning = FALSE
    /\ rSock = "None"
    /\ rInbox = <<>>
    /\ rQ = <<>>
    /\ rLast = "none"
    /\ rStopped = FALSE
    /\ rDropped = FALSE
    /\ rAges = {}
    /\ rStop = "idle"
    /\ aPc = "idle"
    /\ aRet = Nothing
    /\ sent = 0
    /\ netLast = Nothing

\* Publisher.__init__
Publisher_init ==
    /\ pThread = "new"
    /\ pRunning = FALSE
    /\ pSock = "None"
    /\ pCall = "idle"
    /\ pRet = "nocall"
    /\ pEnv = Nothing
    /\ pAt = Nothing
    /\ pCalls = 0
    /\ pStop = "idle"

\* PostOffice.__init__
PostOffice_init(debug) ==
    /\ bDebug = debug
    /\ bThread = "new"
    /\ bCtx = "open"
    /\ bXpub = "none"
    /\ bXsub = "none"
    /\ bDbg = "none"
    /\ bStop = "idle"
    /\ bIn = <<>>
    /\ bOut = <<>>
    /\ bCap = <<>>
    /\ bSubIn = <<>>
    /\ bSubOut = <<>>
    /\ bArrived = 0

\* The outcome of a Node call: op is the method, k is "ok" (it returned v) or
\* "exc" (it raised v); NoCall before any call
NoCall == [k |-> "nothing", v |-> 0, op |-> ""]
Returned(op, v) == [k |-> "ok", v |-> v, op |-> op]
Raised(op, exc) == [k |-> "exc", v |-> exc, op |-> op]

\* Node.__init__
\* _facilities holding the publisher first
Node_init_publisher_first(name, receiver, publisher) ==
    /\ nName = name
    /\ nKinds = <<publisher, receiver>>
    /\ nRunning = FALSE
    /\ nPc = "idle"
    /\ nIdx = 1
    /\ nRet = NoCall
    /\ nLog = ""
    /\ nDone = {}
    /\ nCall = Nothing
    /\ nRun = "idle"

Node_init(name, receiver, publisher) ==
    /\ nName = name
    /\ nKinds = <<receiver, publisher>>
    /\ nRunning = FALSE
    /\ nPc = "idle"
    /\ nIdx = 1
    /\ nRet = NoCall
    /\ nLog = ""
    /\ nDone = {}
    /\ nCall = Nothing
    /\ nRun = "idle"

\* The payload harness before its call
Struct_init(op, args) ==
    /\ sOp = op
    /\ sIn = args
    /\ sOut = Nothing

\* time.time() moves on
Tick ==
    /\ now < MaxTime
    /\ now' = now + 1

-----------------------------------------------------------------------------
(* The codec harness: an envelope is encoded, and its frames decoded *)

CodecEncode ==
    /\ cPc \in {"new", "decoded"}
    /\ cFrames' = convert_to_frames(cEnv, now)
    /\ cEnv' = update_ts(cEnv, now)
    /\ cAt' = now
    /\ cPc' = "encoded"
    /\ UNCHANGED <<now, cSent, cOut, recvVars, pubVars, brokerVars, nodeVars, structVars>>

CodecDecode ==
    /\ cPc = "encoded"
    /\ cOut' = load_from_frames(cFrames, now)
    /\ cPc' = "decoded"
    /\ UNCHANGED <<now, cEnv, cSent, cFrames, cAt, recvVars, pubVars, brokerVars, nodeVars, structVars>>

CodecTick ==
    /\ Tick
    /\ UNCHANGED <<codecVars, recvVars, pubVars, brokerVars, nodeVars, structVars>>

InitCodec ==
    /\ now = 1
    /\ \E e \in SampleEnvelopes(1) : CodecInit(e)
    /\ Receiver_init("", {})
    /\ Publisher_init
    /\ PostOffice_init(FALSE)
    /\ Node_init("test", "None", "None")
    /\ Struct_init("none", <<>>)

NextCodec == CodecEncode \/ CodecDecode \/ CodecTick

SpecCodec == InitCodec /\ [][NextCodec]_vars

-----------------------------------------------------------------------------
(* The Receiver, the peers that send to it, and the application calling recv() *)

\* Receiver.timeout
timeout == 1

IsPrefix(p, str) == Len(p) <= Len(str) /\ SubSeq(str, 1, Len(p)) = p

\* The SUB socket's filter (zmq.SUBSCRIBE set to Receiver._topics): a message
\* passes when the subscription is a prefix of the bytes of its first frame
SubMatches(topics, msg) == IsPrefix(topics, FrameBytes(msg[1]))

\* The messages peers send: envelopes encoded at time t, and malformed ones
WireEnvelopes(t) ==
    { Envelope_init(Str("quotes/ex1/NodeX"), Str("NodeX"),
        Quote_init(Str("BTCUSD"), Str("1000"), Str("10"), Str("bid"),
                   None, None, None, t).v, None, t),
      Envelope_init(Str("testing"), Str("NodeY"),
        List(<<Str("Raw"), Str("this"), Str("is"), Str("data")>>), None, t),
      Envelope_init(Str("quotes/ex1/NodeX"), Str("NodeY"),
        Dict(<<[key |-> "a", val |-> Num(1)]>>), None, t) }

MalformedMessages ==
    { << Frame(JStr("quotes/ex1/NodeX")), Frame(JStr("NodeX")), Frame(JNum(1)) >>,
      << Frame(JStr("testing")), Frame(JStr("NodeY")), RawFrame("{not json"),
         Frame(JNum(1)) >> }

WireMessages(t) ==
    { convert_to_frames(e, t) : e \in WireEnvelopes(t) } \cup MalformedMessages

\* The topic of the envelope a message encodes; None for a malformed message
WireTopic(msg) ==
    IF Len(msg) = 4 /\ \A i \in 1..4 : msg[i].k = "json"
    THEN json_loads(msg[1].v) ELSE None

\* A peer's PUB socket sends msg; the SUB socket queues it when it is connected
\* and its subscription matches
PeerSend ==
    /\ sent < MaxSent
    /\ \E msg \in WireMessages(now) :
         LET taken == rSock = "connected" /\ SubMatches(rTopics, msg)
         IN  /\ rInbox' = IF taken THEN Append(rInbox, msg) ELSE rInbox
             /\ netLast' = [k |-> "sent",
                            v |-> [topic |-> WireTopic(msg),
                                   connected |-> rSock = "connected",
                                   taken |-> taken]]
    /\ sent' = sent + 1
    /\ UNCHANGED <<now, codecVars, pubVars, brokerVars, nodeVars, structVars, rTopics, rExchanges, rThread, rRunning,
                   rSock, rQ, rLast, rStopped, rDropped, rAges, rStop, aPc, aRet>>

\* Thread.start() on the Receiver
Receiver_start ==
    /\ rThread = "new"
    /\ rThread' = "started"
    /\ UNCHANGED <<now, codecVars, pubVars, brokerVars, nodeVars, structVars, rTopics, rExchanges, rRunning, rSock,
                   rInbox, rQ, rLast, rStopped, rDropped, rAges, rStop, aPc, aRet, sent, netLast>>

\* Receiver.run up to the loop: set the flag, open, subscribe and connect the socket
\* run() entered again by a thread whose loop has exited
Receiver_run_setup_again ==
    /\ rThread \in {"started", "exited"}
    /\ rRunning' = TRUE
    /\ rSock' = "connected"
    /\ rThread' = "loop"
    /\ UNCHANGED <<now, codecVars, pubVars, brokerVars, nodeVars, structVars, rTopics, rExchanges, rInbox, rQ, rLast,
                   rStopped, rDropped, rAges, rStop, aPc, aRet, sent, netLast>>

Receiver_run_setup ==
    /\ rThread = "started"
    /\ rRunning' = TRUE
    /\ rSock' = "connected"
    /\ rThread' = "loop"
    /\ UNCHANGED <<now, codecVars, pubVars, brokerVars, nodeVars, structVars, rTopics, rExchanges, rInbox, rQ, rLast,
                   rStopped, rDropped, rAges, rStop, aPc, aRet, sent, netLast>>

\* `if self._exchanges and envelope.origin not in self._exchanges: continue`,
\* negated: whether the envelope passes the origin allow-list
\* The allow-list not consulted
OriginFilterOff(exchanges, envelope) == TRUE

OriginAllowed(exchanges, envelope) ==
    exchanges = {} \/ (envelope.origin.k = "str" /\ envelope.origin.v \in exchanges)

\* `recv_at - float(envelope.ts) > self.timeout`
\* The staleness test never firing
StaleCheckOff(envelope, recv_at) == FALSE

\* An age equal to the timeout taken for stale as well
IsStale_or_equal(envelope, recv_at) == recv_at - envelope.ts.v >= timeout

IsStale(envelope, recv_at) == recv_at - envelope.ts.v > timeout

\* `self.q.put(envelope)` on the Receiver's queue.Queue: a FIFO
\* The envelope put in front of the queue instead of behind it
Queue_put_front(q, envelope) == <<envelope>> \o q

Queue_put(q, envelope) == Append(q, envelope)

\* The frames hold an envelope older than the timeout at time t
FilteredStale(frames, t) ==
    LET r == load_from_frames(frames, t)
    IN  r.k = "ok" /\ r.v.ts.k = "num" /\ IsStale(r.v, t)

\* What one loop iteration does with the frames it received
\*   "skip": load_from_frames raised KeyError, which the loop catches
\*   "die":  load_from_frames raised another exception, which ends the thread
\* The staleness test made before the allow-list is consulted
HandleFrames_stale_first(frames, exchanges, t) ==
    LET r == load_from_frames(frames, t)
    IN  IF r.k = "exc" THEN (IF r.v = "KeyError" THEN "skip" ELSE "die")
        ELSE IF r.v.ts.k /= "num" THEN "die"
        ELSE IF IsStale(r.v, t) THEN "stale"
        ELSE IF ~OriginAllowed(exchanges, r.v) THEN "filtered"
        ELSE "put"

HandleFrames(frames, exchanges, t) ==
    LET r == load_from_frames(frames, t)
    IN  IF r.k = "exc" THEN (IF r.v = "KeyError" THEN "skip" ELSE "die")
        ELSE IF ~OriginAllowed(exchanges, r.v) THEN "filtered"
        ELSE IF r.v.ts.k /= "num" THEN "die"
        ELSE IF IsStale(r.v, t) THEN "stale"
        ELSE "put"

\* One test of the while condition of Receiver.run and the iteration it allows,
\* or the statements after the loop
Receiver_run_loop ==
    /\ rThread = "loop"
    /\ IF ~rRunning
       THEN /\ rThread' = "exited"
            /\ rSock' = "None"
            /\ rLast' = "exit"
            /\ UNCHANGED <<rRunning, rInbox, rQ, rStopped, rDropped, rAges>>
       ELSE IF rInbox = <<>>
       THEN /\ rLast' = "again"
            /\ UNCHANGED <<rThread, rSock, rRunning, rInbox, rQ, rStopped, rDropped, rAges>>
       ELSE LET what == HandleFrames(Head(rInbox), rExchanges, now)
            IN  /\ rInbox' = Tail(rInbox)
                /\ rLast' = what
                /\ rThread' = IF what = "die" THEN "died" ELSE rThread
                /\ rRunning' = IF what = "stale" THEN FALSE ELSE rRunning
                /\ rStopped' = (rStopped \/ what = "stale")
                /\ rDropped' = (rDropped \/ (what = "filtered" /\ FilteredStale(Head(rInbox), now)))
                /\ rAges' = IF what \in {"stale", "put"}
                            THEN rAges \cup {now - load_from_frames(Head(rInbox), now).v.ts.v}
                            ELSE rAges
                /\ rQ' = IF what = "put"
                         THEN Queue_put(rQ, load_from_frames(Head(rInbox), now).v)
                         ELSE rQ
                /\ UNCHANGED rSock
    /\ UNCHANGED <<now, codecVars, pubVars, brokerVars, nodeVars, structVars, rTopics, rExchanges, rStop, aPc, aRet,
                   sent, netLast>>

\* Receiver.stop / Receiver.join: clear the flag, then Thread.join
\* join() emptying the queue as well
Receiver_stop_discards ==
    /\ rStop = "idle"
    /\ rRunning' = FALSE
    /\ rQ' = <<>>
    /\ rStop' = IF rThread = "new" THEN "RuntimeError" ELSE "joining"
    /\ UNCHANGED <<now, codecVars, pubVars, brokerVars, nodeVars, structVars, rTopics, rExchanges, rThread, rSock,
                   rInbox, rLast, rStopped, rDropped, rAges, aPc, aRet, sent, netLast>>

Receiver_stop ==
    /\ rStop = "idle"
    /\ rRunning' = FALSE
    /\ rStop' = IF rThread = "new" THEN "RuntimeError" ELSE "joining"
    /\ UNCHANGED <<now, codecVars, pubVars, brokerVars, nodeVars, structVars, rTopics, rExchanges, rThread, rSock,
                   rInbox, rQ, rLast, rStopped, rDropped, rAges, aPc, aRet, sent, netLast>>

\* Thread.join returns once the thread has ended
Receiver_join_return ==
    /\ rStop = "joining"
    /\ rThread \in {"exited", "died"}
    /\ rStop' = "returned"
    /\ UNCHANGED <<now, codecVars, pubVars, brokerVars, nodeVars, structVars, rTopics, rExchanges, rThread, rRunning,
                   rSock, rInbox, rQ, rLast, rStopped, rDropped, rAges, aPc, aRet, sent, netLast>>

\* Receiver.recv, `if not self.q.empty()`: return None on an empty queue
\* recv() going to q.get without looking at q.empty()
RecvCheckOff == TRUE

Receiver_recv_check == rQ /= <<>>

Receiver_recv ==
    /\ aPc \in {"idle", "ret"}
    /\ IF Receiver_recv_check
       THEN aPc' = "get" /\ UNCHANGED aRet
       ELSE aPc' = "ret" /\ aRet' = None
    /\ UNCHANGED <<now, codecVars, pubVars, brokerVars, nodeVars, structVars, rTopics, rExchanges, rThread, rRunning,
                   rSock, rInbox, rQ, rLast, rStopped, rDropped, rAges, rStop, sent, netLast>>

\* Receiver.recv, `return self.q.get(block, timeout)` with block=False
Receiver_recv_get ==
    /\ aPc = "get"
    /\ aPc' = "ret"
    /\ IF rQ = <<>>
       THEN aRet' = Exc("Empty") /\ UNCHANGED rQ
       ELSE aRet' = Ok(Head(rQ)) /\ rQ' = Tail(rQ)
    /\ UNCHANGED <<now, codecVars, pubVars, brokerVars, nodeVars, structVars, rTopics, rExchanges, rThread, rRunning,
                   rSock, rInbox, rLast, rStopped, rDropped, rAges, rStop, sent, netLast>>

RecvTick ==
    /\ Tick
    /\ UNCHANGED <<codecVars, recvVars, pubVars, brokerVars, nodeVars, structVars>>

Subscriptions == {"", "quotes/ex1"}
AllowLists == {{}, {"NodeY"}}

Init ==
    /\ now = 1
    /\ CodecInit(Nothing)
    /\ \E topics \in Subscriptions, exchanges \in AllowLists :
            Receiver_init(topics, exchanges)
    /\ Publisher_init
    /\ PostOffice_init(FALSE)
    /\ Node_init("test", "None", "None")
    /\ Struct_init("none", <<>>)

Next ==
    \/ PeerSend
    \/ Receiver_start
    \/ Receiver_run_setup
    \/ Receiver_run_loop
    \/ Receiver_stop
    \/ Receiver_join_return
    \/ Receiver_recv
    \/ Receiver_recv_get
    \/ RecvTick

Spec == Init /\ [][Next]_vars

\* Peers whose clocks run ahead of the Receiver's by up to MaxSkew seconds:
\* the timestamp of an envelope is the sender's time.time() at the send
MaxSkew == 1

\* Those peers send the envelope of NodeY on the topic "testing"
Skew_PeerSend ==
    /\ sent < MaxSent
    /\ \E skew \in 0..MaxSkew :
       \E e \in { x \in WireEnvelopes(now + skew) : x.topic = Str("testing") } :
         LET msg == convert_to_frames(e, now + skew)
             taken == rSock = "connected" /\ SubMatches(rTopics, msg)
         IN  /\ rInbox' = IF taken THEN Append(rInbox, msg) ELSE rInbox
             /\ netLast' = [k |-> "sent",
                            v |-> [topic |-> WireTopic(msg),
                                   connected |-> rSock = "connected",
                                   taken |-> taken]]
    /\ sent' = sent + 1
    /\ UNCHANGED <<now, codecVars, pubVars, brokerVars, nodeVars, structVars, rTopics, rExchanges, rThread, rRunning,
                   rSock, rQ, rLast, rStopped, rDropped, rAges, rStop, aPc, aRet>>

InitSkew ==
    /\ now = 1
    /\ CodecInit(Nothing)
    /\ Receiver_init("", {})
    /\ Publisher_init
    /\ PostOffice_init(FALSE)
    /\ Node_init("test", "None", "None")
    /\ Struct_init("none", <<>>)

NextSkew ==
    \/ Skew_PeerSend
    \/ Receiver_start
    \/ Receiver_run_setup
    \/ Receiver_run_loop
    \/ Receiver_stop
    \/ Receiver_join_return
    \/ Receiver_recv
    \/ Receiver_recv_get
    \/ RecvTick

SpecSkew == InitSkew /\ [][NextSkew]_vars

\* The run loop's three kinds of iteration: the exit on a cleared flag (84,
\* 113-115), the idle pass on zmq.error.Again (86-88), and the handling of a
\* received message (90-111)
Receiver_run_exit == rThread = "loop" /\ ~rRunning /\ Receiver_run_loop

Receiver_run_idle == rThread = "loop" /\ rRunning /\ rInbox = <<>> /\ Receiver_run_loop

\* A message is waiting for a worker that is in its loop with the flag set
Receiver_run_handling == rThread = "loop" /\ rRunning /\ rInbox /= <<>>

\* The Receiver with its threads scheduled: the worker thread, once started,
\* goes on executing run(), and a join() whose thread has ended returns.
\* The last conjunct is the weak fairness of the message-handling iteration,
\* written out: that iteration always takes a message off rInbox, so it is
\* enabled exactly when Receiver_run_handling holds.
SpecLive ==
    /\ Spec
    /\ WF_vars(Receiver_run_setup)
    /\ WF_vars(Receiver_run_exit)
    /\ WF_vars(Receiver_run_idle)
    /\ WF_vars(Receiver_join_return)
    /\ \/ []<>~Receiver_run_handling
       \/ []<><<Receiver_run_handling /\ Receiver_run_loop>>_vars

-----------------------------------------------------------------------------
(* The Publisher and the threads that call publish() and stop() on it *)

\* Thread.start() on the Publisher
Publisher_start ==
    /\ pThread = "new"
    /\ pThread' = "started"
    /\ UNCHANGED <<now, codecVars, recvVars, brokerVars, nodeVars, structVars, pRunning, pSock, pCall, pRet, pEnv, pAt,
                   pCalls, pStop>>

\* Publisher.run, `self._running = True` to `self.sock = ctx.socket(...)`
Publisher_run_setup ==
    /\ pThread = "started"
    /\ pRunning' = TRUE
    /\ pSock' = "open"
    /\ pThread' = "setup"
    /\ UNCHANGED <<now, codecVars, recvVars, brokerVars, nodeVars, structVars, pCall, pRet, pEnv, pAt, pCalls, pStop>>

\* Publisher.run, `log.info("Connecting ... %s.." % self.pub_addr)`: the
\* Publisher has no attribute pub_addr (__init__ sets target_addr), so this
\* raises AttributeError and the thread ends before the loop
Publisher_run_connect ==
    /\ pThread = "setup"
    /\ pThread' = "died"
    /\ UNCHANGED <<now, codecVars, recvVars, brokerVars, nodeVars, structVars, pRunning, pSock, pCall, pRet, pEnv, pAt,
                   pCalls, pStop>>

\* An Envelope held as the data of another: an object that is no Message
EnvelopeValue(e) == [k |-> "envelope", v |-> e]

\* Whether convert_to_frames can encode the data: a Message serializes itself,
\* json.dumps takes the JSON types and raises TypeError on any other object
Encodable(data) == data.k \in {"obj", "str", "num", "none", "list", "tuple", "dict"}

\* The body of Publisher.publish on the envelope: what the call returns or
\* raises ("pending" while it has not returned), the envelope as the call
\* leaves it, and where the caller is.
\*   False when self.sock is None; otherwise
\*   self._input.send_multipart(envelope.convert_to_frames()):
\*   convert_to_frames refreshes the timestamp and then encodes, or raises
\*   TypeError; _input is a PUSH socket that is never bound or connected, and
\*   a PUSH socket without a peer blocks in send: the caller stays in "sending"
\* publish() refreshing the timestamp before it looks at the socket
Publisher_publish_body_stamps(sock, envelope, t) ==
    IF sock = "None"
    THEN [ret |-> "False", env |-> update_ts(envelope, t), call |-> "idle"]
    ELSE IF ~Encodable(envelope.data)
    THEN [ret |-> "TypeError", env |-> update_ts(envelope, t), call |-> "idle"]
    ELSE [ret |-> "pending", env |-> update_ts(envelope, t), call |-> "sending"]

Publisher_publish_body(sock, envelope, t) ==
    IF sock = "None"
    THEN [ret |-> "False", env |-> envelope, call |-> "idle"]
    ELSE IF ~Encodable(envelope.data)
    THEN [ret |-> "TypeError", env |-> update_ts(envelope, t), call |-> "idle"]
    ELSE [ret |-> "pending", env |-> update_ts(envelope, t), call |-> "sending"]

\* Publisher.publish, called on an envelope that was built at the call or
\* earlier
Publisher_publish ==
    /\ pCall = "idle"
    /\ pCalls < MaxCalls
    /\ pCalls' = pCalls + 1
    /\ \E built \in 1..now : \E e \in WireEnvelopes(built) :
         LET r == Publisher_publish_body(pSock, e, now)
         IN  /\ pAt' = [k |-> "call", v |-> [sock |-> pSock, thread |-> pThread,
                                               stop |-> pStop, env |-> e]]
             /\ pRet' = r.ret
             /\ pEnv' = r.env
             /\ pCall' = r.call
    /\ UNCHANGED <<now, codecVars, recvVars, brokerVars, nodeVars, structVars, pThread, pRunning, pSock, pStop>>

\* Publisher.stop / Publisher.join: clear the flag, close the socket if there
\* is one, then Thread.join
Publisher_stop ==
    /\ pStop = "idle"
    /\ pRunning' = FALSE
    /\ pSock' = IF pSock = "None" THEN "None" ELSE "closed"
    /\ pStop' = IF pThread = "new" THEN "RuntimeError" ELSE "joining"
    /\ UNCHANGED <<now, codecVars, recvVars, brokerVars, nodeVars, structVars, pThread, pCall, pRet, pEnv, pAt, pCalls>>

\* Thread.join returns once the thread has ended
Publisher_join_return ==
    /\ pStop = "joining"
    /\ pThread = "died"
    /\ pStop' = "returned"
    /\ UNCHANGED <<now, codecVars, recvVars, brokerVars, nodeVars, structVars, pThread, pRunning, pSock, pCall, pRet,
                   pEnv, pAt, pCalls>>

PubTick ==
    /\ Tick
    /\ UNCHANGED <<codecVars, recvVars, pubVars, brokerVars, nodeVars, structVars>>

InitPub ==
    /\ now = 1
    /\ CodecInit(Nothing)
    /\ Receiver_init("", {})
    /\ Publisher_init
    /\ PostOffice_init(FALSE)
    /\ Node_init("test", "None", "None")
    /\ Struct_init("none", <<>>)

NextPub ==
    \/ Publisher_start
    \/ Publisher_run_setup
    \/ Publisher_run_connect
    \/ Publisher_publish
    \/ Publisher_stop
    \/ Publisher_join_return
    \/ PubTick

SpecPub == InitPub /\ [][NextPub]_vars

\* The two workers side by side with no peer sending: one thread calls recv()
\* on the Receiver, whose FIFO stays empty, another publish() on the Publisher
InitCalls == InitPub

NextCalls ==
    \/ Receiver_start
    \/ Receiver_run_setup
    \/ Receiver_run_loop
    \/ Receiver_stop
    \/ Receiver_join_return
    \/ Receiver_recv
    \/ Publisher_start
    \/ Publisher_run_setup
    \/ Publisher_run_connect
    \/ Publisher_publish
    \/ Publisher_stop
    \/ Publisher_join_return
    \/ PubTick

SpecCalls == InitCalls /\ [][NextCalls]_vars

-----------------------------------------------------------------------------
(* The PostOffice (the broker): its thread, the thread that calls stop(), and *)
(* the publishers and subscribers connected to its two sockets                *)

\* A subscription message, as a SUB socket sends it upstream: one frame that
\* holds the subscribe byte and the topic prefix
SubMessage(topic) == << [k |-> "sub", v |-> topic] >>

IsSubMessage(msg) == Len(msg) = 1 /\ msg[1].k = "sub"

\* A subscriber's SUB socket subscribes: the message reaches the XPUB socket
SubscriberSubscribe ==
    /\ bArrived < MaxRelay
    /\ bXpub = "open"
    /\ \E topic \in Subscriptions : bSubIn' = Append(bSubIn, SubMessage(topic))
    /\ bArrived' = bArrived + 1
    /\ UNCHANGED <<now, codecVars, recvVars, pubVars, nodeVars, structVars, bDebug, bThread, bCtx,
                   bXpub, bXsub, bDbg, bStop, bIn, bOut, bCap, bSubOut>>

\* A publisher's PUB socket sends a message: it reaches the XSUB socket when a
\* subscription the XSUB socket has sent upstream is a prefix of its first frame
PublisherSend ==
    /\ bArrived < MaxRelay
    /\ bXsub = "open"
    /\ \E msg \in WireMessages(now) :
         /\ \E i \in 1..Len(bSubOut) : IsPrefix(bSubOut[i][1].v, FrameBytes(msg[1]))
         /\ bIn' = Append(bIn, msg)
    /\ bArrived' = bArrived + 1
    /\ UNCHANGED <<now, codecVars, recvVars, pubVars, nodeVars, structVars, bDebug, bThread, bCtx,
                   bXpub, bXsub, bDbg, bStop, bOut, bCap, bSubIn, bSubOut>>

\* Thread.start() on the PostOffice
PostOffice_start ==
    /\ bThread = "new"
    /\ bThread' = "started"
    /\ UNCHANGED <<now, codecVars, recvVars, pubVars, nodeVars, structVars, bDebug, bCtx, bXpub,
                   bXsub, bDbg, bStop, bIn, bOut, bCap, bSubIn, bSubOut, bArrived>>

\* PostOffice.run, `xpub = ctx.socket(zmq.XPUB)` and its bind; on a terminated
\* context ctx.socket raises ContextTerminated, which ends the thread
PostOffice_run_xpub ==
    /\ bThread = "started"
    /\ IF bCtx = "terminated"
       THEN bThread' = "died" /\ UNCHANGED bXpub
       ELSE bThread' = "xpub" /\ bXpub' = "open"
    /\ UNCHANGED <<now, codecVars, recvVars, pubVars, nodeVars, structVars, bDebug, bCtx, bXsub,
                   bDbg, bStop, bIn, bOut, bCap, bSubIn, bSubOut, bArrived>>

\* PostOffice.run, `xsub = ctx.socket(zmq.XSUB)` and its bind
PostOffice_run_xsub ==
    /\ bThread = "xpub"
    /\ IF bCtx = "terminated"
       THEN bThread' = "died" /\ UNCHANGED bXsub
       ELSE bThread' = "xsub" /\ bXsub' = "open"
    /\ UNCHANGED <<now, codecVars, recvVars, pubVars, nodeVars, structVars, bDebug, bCtx, bXpub,
                   bDbg, bStop, bIn, bOut, bCap, bSubIn, bSubOut, bArrived>>

\* PostOffice.run, `if self.debug_addr:`: the debug socket, or debug_pub = None
PostOffice_run_debug ==
    /\ bThread = "xsub"
    /\ IF ~bDebug
       THEN bThread' = "relay" /\ UNCHANGED bDbg
       ELSE IF bCtx = "terminated"
       THEN bThread' = "died" /\ UNCHANGED bDbg
       ELSE bThread' = "relay" /\ bDbg' = "open"
    /\ UNCHANGED <<now, codecVars, recvVars, pubVars, nodeVars, structVars, bDebug, bCtx, bXpub,
                   bXsub, bStop, bIn, bOut, bCap, bSubIn, bSubOut, bArrived>>

\* What zmq.proxy does with a message it has received on one socket: it sends
\* the message, all frames as they are, on the other socket
\* The message sent ahead of the messages sent before it
proxy_send_front(sentq, msg) == <<msg>> \o sentq

proxy_send(sentq, msg) == Append(sentq, msg)

\* ... and on the capture socket when there is one
proxy_capture(capq, msg, dbg) == IF dbg = "open" THEN Append(capq, msg) ELSE capq

\* zmq.proxy(xpub, xsub, debug_pub): a message from a publisher goes to the
\* subscribers' side
PostOffice_proxy_forward ==
    /\ bThread = "relay"
    /\ bCtx = "open"
    /\ bIn /= <<>>
    /\ bOut' = proxy_send(bOut, Head(bIn))
    /\ bCap' = proxy_capture(bCap, Head(bIn), bDbg)
    /\ bIn' = Tail(bIn)
    /\ UNCHANGED <<now, codecVars, recvVars, pubVars, nodeVars, structVars, bDebug, bThread, bCtx,
                   bXpub, bXsub, bDbg, bStop, bSubIn, bSubOut, bArrived>>

\* zmq.proxy(xpub, xsub, debug_pub): a subscription message goes to the
\* publishers' side
PostOffice_proxy_backward ==
    /\ bThread = "relay"
    /\ bCtx = "open"
    /\ bSubIn /= <<>>
    /\ bSubOut' = proxy_send(bSubOut, Head(bSubIn))
    /\ bCap' = proxy_capture(bCap, Head(bSubIn), bDbg)
    /\ bSubIn' = Tail(bSubIn)
    /\ UNCHANGED <<now, codecVars, recvVars, pubVars, nodeVars, structVars, bDebug, bThread, bCtx,
                   bXpub, bXsub, bDbg, bStop, bIn, bOut, bArrived>>

\* PostOffice.run, `except zmq.error.ContextTerminated:`: zmq.proxy raises once
\* the context is terminated; xpub.close(), xsub.close(), debug_pub.close().
\* Without a debug address debug_pub is None and debug_pub.close() raises
\* AttributeError, which ends the thread
PostOffice_run_terminated ==
    /\ bThread = "relay"
    /\ bCtx = "terminated"
    /\ bXpub' = "closed"
    /\ bXsub' = "closed"
    /\ IF bDbg = "open"
       THEN bDbg' = "closed" /\ bThread' = "exited"
       ELSE UNCHANGED bDbg /\ bThread' = "died"
    /\ UNCHANGED <<now, codecVars, recvVars, pubVars, nodeVars, structVars, bDebug, bCtx, bStop,
                   bIn, bOut, bCap, bSubIn, bSubOut, bArrived>>

\* SIGINT while run() is the main thread of a process, inside zmq.proxy:
\* KeyboardInterrupt is not a ContextTerminated, so it leaves run() and the
\* sockets are not closed
PostOffice_interrupt ==
    /\ bThread = "relay"
    /\ bCtx = "open"
    /\ bStop = "idle"
    /\ bThread' = "interrupted"
    /\ UNCHANGED <<now, codecVars, recvVars, pubVars, nodeVars, structVars, bDebug, bCtx, bXpub,
                   bXsub, bDbg, bStop, bIn, bOut, bCap, bSubIn, bSubOut, bArrived>>

\* PostOffice.stop, `self.ctx.term()`: the context is terminated, and term()
\* waits until every socket of the context is closed
PostOffice_stop ==
    /\ bStop = "idle"
    /\ bThread /= "interrupted"
    /\ bCtx' = "terminated"
    /\ bStop' = "term"
    /\ UNCHANGED <<now, codecVars, recvVars, pubVars, nodeVars, structVars, bDebug, bThread, bXpub,
                   bXsub, bDbg, bIn, bOut, bCap, bSubIn, bSubOut, bArrived>>

\* ctx.term() returns; PostOffice.stop, `self.join(timeout)`
PostOffice_term_return ==
    /\ bStop = "term"
    /\ "open" \notin {bXpub, bXsub, bDbg}
    /\ bStop' = IF bThread = "new" THEN "RuntimeError" ELSE "joining"
    /\ UNCHANGED <<now, codecVars, recvVars, pubVars, nodeVars, structVars, bDebug, bThread, bCtx,
                   bXpub, bXsub, bDbg, bIn, bOut, bCap, bSubIn, bSubOut, bArrived>>

\* Thread.join returns once the thread has ended
PostOffice_join_return ==
    /\ bStop = "joining"
    /\ bThread \in {"exited", "died"}
    /\ bStop' = "returned"
    /\ UNCHANGED <<now, codecVars, recvVars, pubVars, nodeVars, structVars, bDebug, bThread, bCtx,
                   bXpub, bXsub, bDbg, bIn, bOut, bCap, bSubIn, bSubOut, bArrived>>

InitBroker ==
    /\ now = 1
    /\ CodecInit(Nothing)
    /\ Receiver_init("", {})
    /\ Publisher_init
    /\ \E debug \in BOOLEAN : PostOffice_init(debug)
    /\ Node_init("test", "None", "None")
    /\ Struct_init("none", <<>>)

NextBroker ==
    \/ SubscriberSubscribe
    \/ PublisherSend
    \/ PostOffice_start
    \/ PostOffice_run_xpub
    \/ PostOffice_run_xsub
    \/ PostOffice_run_debug
    \/ PostOffice_proxy_forward
    \/ PostOffice_proxy_backward
    \/ PostOffice_run_terminated
    \/ PostOffice_interrupt
    \/ PostOffice_stop
    \/ PostOffice_term_return
    \/ PostOffice_join_return

SpecBroker == InitBroker /\ [][NextBroker]_vars

-----------------------------------------------------------------------------
(* The Node: a Receiver and a Publisher (or whatever was passed for them)    *)
(* started and stopped together, and the thread that calls the Node          *)

\* Whether an object of the kind has the attribute
\* Every object taken to have every attribute
HasAttrAny(kind, attr) == TRUE

HasAttr(kind, attr) ==
    \/ kind = "Receiver" /\ attr \in {"start", "stop", "recv"}
    \/ kind = "Publisher" /\ attr \in {"start", "stop", "publish"}

\* `if facility:`
FacilityTruthy(kind) == kind /= "None"

\* The calling thread is not inside a call
AppFree == nPc = "idle" /\ pCall = "idle" /\ aPc /= "get"

\* Node.start / Node.__enter__: _start_facilities up to its loop
Node_start ==
    /\ AppFree
    /\ "start" \notin nDone
    /\ nDone' = nDone \cup {"start"}
    /\ nRunning' = TRUE
    /\ nPc' = "starting"
    /\ nIdx' = 1
    /\ UNCHANGED <<now, codecVars, recvVars, pubVars, brokerVars, structVars, nName, nKinds, nCall, nRun, nRet, nLog>>

\* Node.stop / Node.__exit__: _stop_facilities up to its loop
Node_stop ==
    /\ AppFree
    /\ "stop" \notin nDone
    /\ nDone' = nDone \cup {"stop"}
    /\ nRunning' = FALSE
    /\ nPc' = "stopping"
    /\ nIdx' = 1
    /\ UNCHANGED <<now, codecVars, recvVars, pubVars, brokerVars, structVars, nName, nKinds, nCall, nRun, nRet, nLog>>

\* The loops of _start_facilities and _stop_facilities, `facility.start()`
\* and `facility.stop()` on the Receiver and on the Publisher
Node_start_receiver ==
    /\ nPc = "starting" /\ nIdx <= 2 /\ nKinds[nIdx] = "Receiver"
    /\ Receiver_start

Node_start_publisher ==
    /\ nPc = "starting" /\ nIdx <= 2 /\ nKinds[nIdx] = "Publisher"
    /\ Publisher_start

Node_stop_receiver ==
    /\ nPc = "stopping" /\ nIdx <= 2 /\ nKinds[nIdx] = "Receiver"
    /\ Receiver_stop

Node_stop_publisher ==
    /\ nPc = "stopping" /\ nIdx <= 2 /\ nKinds[nIdx] = "Publisher"
    /\ Publisher_stop

\* The exception the call on the facility at hand has raised, "" when none:
\* AttributeError when the object has no such method, RuntimeError from
\* Thread.join on a thread that was never started
FacilityError ==
    IF ~(nPc \in {"starting", "stopping"} /\ nIdx <= 2) THEN ""
    ELSE LET kind == nKinds[nIdx]
             attr == IF nPc = "starting" THEN "start" ELSE "stop"
         IN  IF ~FacilityTruthy(kind) THEN ""
             ELSE IF ~HasAttr(kind, attr) THEN "AttributeError"
             ELSE IF nPc = "stopping" /\ kind = "Receiver" /\ rStop = "RuntimeError"
                  THEN "RuntimeError"
             ELSE IF nPc = "stopping" /\ kind = "Publisher" /\ pStop = "RuntimeError"
                  THEN "RuntimeError"
             ELSE ""

\* Whether the call on the facility at hand has returned
FacilityReturned ==
    /\ nPc \in {"starting", "stopping"} /\ nIdx <= 2
    /\ LET kind == nKinds[nIdx]
       IN  \/ ~FacilityTruthy(kind)
           \/ nPc = "starting" /\ kind = "Receiver" /\ rThread /= "new"
           \/ nPc = "starting" /\ kind = "Publisher" /\ pThread /= "new"
           \/ nPc = "stopping" /\ kind = "Receiver" /\ rStop = "returned"
           \/ nPc = "stopping" /\ kind = "Publisher" /\ pStop = "returned"

\* The loops go on to the next facility
Node_next_facility ==
    /\ FacilityReturned
    /\ nIdx' = nIdx + 1
    /\ UNCHANGED <<now, codecVars, recvVars, pubVars, brokerVars, structVars, nName, nKinds, nCall, nRun, nRunning, nPc,
                   nRet, nLog, nDone>>

\* `except Exception as e: log.exception(e); log.error(...); raise`
\* The error logged and the loop going on, instead of raising
Node_except_swallow(op, exc, idx) ==
    [pc  |-> IF op = "start" THEN "starting" ELSE "stopping",
     ret |-> nRet,
     log |-> "Could not " \o op \o " all facilities!",
     idx |-> idx + 1]

Node_except(op, exc, idx) ==
    [pc  |-> "idle",
     ret |-> Raised(op, exc),
     log |-> "Could not " \o op \o " all facilities!",
     idx |-> idx]

Node_facility_raise ==
    /\ FacilityError /= ""
    /\ LET h == Node_except(IF nPc = "starting" THEN "start" ELSE "stop",
                            FacilityError, nIdx)
       IN  /\ nPc' = h.pc
           /\ nRet' = h.ret
           /\ nLog' = h.log
           /\ nIdx' = h.idx
    /\ UNCHANGED <<now, codecVars, recvVars, pubVars, brokerVars, structVars, nName, nKinds, nCall, nRun, nRunning, nDone>>

\* The loops are through: start() and stop() return None
Node_facilities_done ==
    /\ nPc \in {"starting", "stopping"}
    /\ nIdx = 3
    /\ nRet' = Returned(IF nPc = "starting" THEN "start" ELSE "stop", None)
    /\ nPc' = "idle"
    /\ UNCHANGED <<now, codecVars, recvVars, pubVars, brokerVars, structVars, nName, nKinds, nCall, nRun, nRunning, nIdx,
                   nLog, nDone>>

\* The names of a Node, the channels it publishes on and the data it publishes
NodeNames == {"test", "NodeY"}
Channels == {"RAW", "quotes/ex1"}
NodeData ==
    { Str("data"),
      Quote_init(Str("BTCUSD"), Str("1000"), Str("10"), Str("bid"), None, None, None, 1).v }

\* `envelope = Envelope(channel + '/' + self.name, self.name, data)`
\* The envelope with the channel alone as its topic
Node_envelope_bare_topic(channel, name, data, t) ==
    Envelope_init(Str(channel), Str(name), data, None, t)

Node_envelope(channel, name, data, t) ==
    Envelope_init(Str(channel \o "/" \o name), Str(name), data, None, t)

\* Node.publish: self.publisher.publish(envelope), or NotImplementedError
\* when that raises AttributeError
Node_publish ==
    /\ AppFree
    /\ nRun = "idle"
    /\ HasAttr(nKinds[2], "publish")
    /\ pCalls < MaxCalls
    /\ pCalls' = pCalls + 1
    /\ \E channel \in Channels, data \in NodeData :
         LET r == Publisher_publish_body(pSock, Node_envelope(channel, nName, data, now), now)
         IN  /\ nCall' = [k |-> "publish", v |-> [channel |-> channel, data |-> data]]
             /\ pAt' = [k |-> "call", v |-> [sock |-> pSock, thread |-> pThread,
                                               stop |-> pStop,
                                               env |-> Node_envelope(channel, nName, data, now)]]
             /\ pRet' = r.ret
             /\ pEnv' = r.env
             /\ pCall' = r.call
    /\ UNCHANGED <<now, codecVars, recvVars, brokerVars, structVars, pThread, pRunning, pSock,
                   pStop, nName, nKinds, nRunning, nPc, nIdx, nRet, nLog, nDone, nRun>>

Node_publish_unsupported ==
    /\ AppFree
    /\ ~HasAttr(nKinds[2], "publish")
    /\ nRet' = Raised("publish", "NotImplementedError")
    /\ UNCHANGED <<now, codecVars, recvVars, pubVars, brokerVars, structVars, nName, nKinds, nCall, nRun, nRunning, nPc,
                   nIdx, nLog, nDone>>

\* Node.recv: self.receiver.recv(block, timeout), or NotImplementedError
Node_recv ==
    /\ AppFree
    /\ HasAttr(nKinds[1], "recv")
    /\ Receiver_recv

Node_recv_unsupported ==
    /\ AppFree
    /\ ~HasAttr(nKinds[1], "recv")
    /\ nRet' = Raised("recv", "NotImplementedError")
    /\ UNCHANGED <<now, codecVars, recvVars, pubVars, brokerVars, structVars, nName, nKinds, nCall, nRun, nRunning, nPc,
                   nIdx, nLog, nDone>>

\* Node.run is called
Node_run ==
    /\ nRun = "idle"
    /\ pCall = "idle"
    /\ aPc = "idle"
    /\ nRun' = "test"
    /\ UNCHANGED <<now, codecVars, recvVars, pubVars, brokerVars, structVars, nName, nKinds, nCall,
                   nRunning, nPc, nIdx, nRet, nLog, nDone>>

\* `while self._running:`, with run() returning when the flag is cleared
Node_run_test ==
    /\ nRun = "test"
    /\ IF nRunning
       THEN nRun' = "recv" /\ UNCHANGED nRet
       ELSE nRun' = "returned" /\ nRet' = Returned("run", None)
    /\ UNCHANGED <<now, codecVars, recvVars, pubVars, brokerVars, structVars, nName, nKinds, nCall,
                   nRunning, nPc, nIdx, nLog, nDone>>

\* `msg = self.recv()`: Node.recv calls the Receiver's recv(False, None)
Node_run_recv ==
    /\ nRun = "recv"
    /\ aPc = "idle"
    /\ HasAttr(nKinds[1], "recv")
    /\ Receiver_recv

Node_run_recv_get ==
    /\ nRun = "recv"
    /\ Receiver_recv_get

\* `if msg: self.publish('RAW', msg)`, once recv() has returned; msg is None
\* or an Envelope, and Node.publish wraps it as the data of a new Envelope.
\* An exception that leaves recv() or publish() leaves run()
Node_run_publish ==
    /\ nRun = "recv"
    /\ aPc = "ret"
    /\ aPc' = "idle"
    /\ IF aRet.k = "exc"
       THEN /\ nRun' = "raised"
            /\ nRet' = Raised("run", aRet.v)
            /\ UNCHANGED <<pubVars, nCall>>
       ELSE IF ~Truthy(aRet)
       THEN /\ nRun' = "test"
            /\ UNCHANGED <<pubVars, nCall, nRet>>
       ELSE /\ nCall' = [k |-> "publish",
                         v |-> [channel |-> "RAW", data |-> EnvelopeValue(aRet.v)]]
            /\ IF ~HasAttr(nKinds[2], "publish")
               THEN /\ nRun' = "raised"
                    /\ nRet' = Raised("run", "NotImplementedError")
                    /\ UNCHANGED pubVars
               ELSE LET r == Publisher_publish_body(pSock,
                                Node_envelope("RAW", nName, EnvelopeValue(aRet.v), now), now)
                    IN  /\ pCalls' = pCalls + 1
                        /\ pAt' = [k |-> "call", v |-> [sock |-> pSock, thread |-> pThread,
                                                         stop |-> pStop,
                                                         env |-> Node_envelope("RAW", nName,
                                                                    EnvelopeValue(aRet.v), now)]]
                        /\ pRet' = r.ret
                        /\ pEnv' = r.env
                        /\ pCall' = r.call
                        /\ nRun' = IF r.ret = "False" THEN "test" ELSE "raised"
                        /\ nRet' = IF r.ret = "False" THEN nRet ELSE Raised("run", r.ret)
                        /\ UNCHANGED <<pThread, pRunning, pSock, pStop>>
    /\ UNCHANGED <<now, codecVars, brokerVars, structVars, rTopics, rExchanges, rThread, rRunning,
                   rSock, rInbox, rQ, rLast, rStopped, rDropped, rAges, rStop, aRet, sent, netLast,
                   nName, nKinds, nRunning, nPc, nIdx, nLog, nDone>>

\* What a Node is built from. No peer sends to the Node's Receiver here: its
\* queue stays empty and recv() returns at its q.empty() test
NodeConfigs ==
    { <<"Receiver", "Publisher">>, <<"Publisher", "Receiver">>, <<"Invalid", "None">>,
      <<"Receiver", "None">>, <<"None", "None">> }

InitNode ==
    /\ now = 1
    /\ CodecInit(Nothing)
    /\ Receiver_init("", {})
    /\ Publisher_init
    /\ PostOffice_init(FALSE)
    /\ \E name \in NodeNames, c \in NodeConfigs : Node_init(name, c[1], c[2])
    /\ Struct_init("none", <<>>)

NextNode ==
    \/ Node_start
    \/ Node_stop
    \/ Node_start_receiver
    \/ Node_start_publisher
    \/ Node_stop_receiver
    \/ Node_stop_publisher
    \/ Node_next_facility
    \/ Node_facility_raise
    \/ Node_facilities_done
    \/ Node_publish
    \/ Node_publish_unsupported
    \/ Node_recv
    \/ Node_recv_unsupported
    \/ Receiver_run_setup
    \/ Receiver_run_loop
    \/ Receiver_join_return
    \/ Publisher_run_setup
    \/ Publisher_run_connect
    \/ Publisher_join_return

SpecNode == InitNode /\ [][NextNode]_vars

\* A Node of a Publisher and of a Receiver or a str in the Receiver's place.
\* The application that built the Node starts the Publisher itself once
\* Node.start() has come back without starting it
AbortConfigs == { <<"Receiver", "Publisher">>, <<"Invalid", "Publisher">> }

App_start_publisher ==
    /\ AppFree
    /\ "start" \in nDone
    /\ Publisher_start

InitAbort ==
    /\ now = 1
    /\ CodecInit(Nothing)
    /\ Receiver_init("", {})
    /\ Publisher_init
    /\ PostOffice_init(FALSE)
    /\ \E name \in NodeNames, c \in AbortConfigs : Node_init(name, c[1], c[2])
    /\ Struct_init("none", <<>>)

NextAbort ==
    \/ Node_start
    \/ Node_stop
    \/ Node_start_receiver
    \/ Node_start_publisher
    \/ Node_stop_receiver
    \/ Node_stop_publisher
    \/ Node_next_facility
    \/ Node_facility_raise
    \/ Node_facilities_done
    \/ App_start_publisher
    \/ Receiver_run_setup
    \/ Receiver_run_loop
    \/ Receiver_join_return
    \/ Publisher_run_setup
    \/ Publisher_run_connect
    \/ Publisher_join_return

SpecAbort == InitAbort /\ [][NextAbort]_vars

\* A Node of a Receiver and a Publisher, with peers that send envelopes on the
\* topic "quotes/ex1/NodeX" to the Receiver: one thread calls run(), another
\* start() and stop()
Run_PeerSend ==
    /\ PeerSend
    /\ netLast'.v.topic = Str("quotes/ex1/NodeX")

InitRun ==
    /\ now = 1
    /\ CodecInit(Nothing)
    /\ Receiver_init("", {})
    /\ Publisher_init
    /\ PostOffice_init(FALSE)
    /\ \E name \in NodeNames : Node_init(name, "Receiver", "Publisher")
    /\ Struct_init("none", <<>>)

NextRun ==
    \/ Run_PeerSend
    \/ Node_start
    \/ Node_stop
    \/ Node_start_receiver
    \/ Node_start_publisher
    \/ Node_stop_receiver
    \/ Node_stop_publisher
    \/ Node_next_facility
    \/ Node_facility_raise
    \/ Node_facilities_done
    \/ Node_run
    \/ Node_run_test
    \/ Node_run_recv
    \/ Node_run_recv_get
    \/ Node_run_publish
    \/ Receiver_run_setup
    \/ Receiver_run_loop
    \/ Receiver_join_return
    \/ Publisher_run_setup
    \/ Publisher_run_connect
    \/ Publisher_join_return

SpecRun == InitRun /\ [][NextRun]_vars

\* The same Node under one name, with time passing while a message waits in
\* the SUB socket for the running loop, so that envelopes age between a peer's
\* send and the Receiver's loop
Life_Tick ==
    /\ Receiver_run_handling
    /\ RecvTick

\* The peer NodeX sends, an envelope or a message of three frames, when no
\* message waits in the SUB socket
Life_PeerSend ==
    /\ rInbox = <<>>
    /\ PeerSend
    /\ rInbox' /= rInbox => rInbox'[Len(rInbox')][2] = Frame(JStr("NodeX"))

InitLife ==
    /\ InitRun
    /\ nName = "test"

NextLife ==
    \/ Life_Tick
    \/ Life_PeerSend
    \/ Node_start
    \/ Node_stop
    \/ Node_start_receiver
    \/ Node_start_publisher
    \/ Node_stop_receiver
    \/ Node_stop_publisher
    \/ Node_next_facility
    \/ Node_facility_raise
    \/ Node_facilities_done
    \/ Node_run
    \/ Node_run_test
    \/ Node_run_recv
    \/ Node_run_recv_get
    \/ Node_run_publish
    \/ Receiver_run_setup
    \/ Receiver_run_loop
    \/ Receiver_join_return
    \/ Publisher_run_setup
    \/ Publisher_run_connect
    \/ Publisher_join_return

SpecLife == InitLife /\ [][NextLife]_vars

-----------------------------------------------------------------------------
(* The payload harness: one constructor or method of hermes.structs is called *)
(* on sample arguments                                                        *)

Pairs == {"BTCUSD", "ETHUSD"}

\* Quote(pair, price, size, side) for the sides given
QuoteSamples(sides) ==
    { Quote_init(Str(p), Num(price), Num(size), Str(side), None, None, None, 1).v :
        p \in Pairs, price \in {1000, 999}, size \in {10, 5}, side \in sides }

\* Candle(pair, open, high, low, close, ts, frame)
CandleSamples ==
    { Candle_init(Str("BTCUSD"), Num(c[1]), Num(c[2]), Num(c[3]), Num(c[4]),
                  Num(ts), Num(60), 1).v :
        c \in {<<5, 9, 4, 6>>, <<7, 10, 3, 8>>, <<10, 12, 9, 11>>}, ts \in 1..3 }

\* The levels and the sides of a book, well-shaped and not
Level2  == List(<<Str("1000"), Str("15")>>)
Level3n == List(<<Str("1000"), Num(15), Str("121314255.00")>>)
Level4n == List(<<Str("1000"), Str("15"), Str("121314255.00"), Num(111)>>)
Level3t == Tuple(<<Str("1000"), Str("15"), Str("121314255.00")>>)

BookSides ==
    { List(<<>>), List(<<Level3>>), List(<<Level3, Level3t>>), Tuple(<<Level3t>>),
      List(<<Level4>>), List(<<Level3, Level4>>), List(<<Level2>>),
      List(<<Level3n>>), List(<<Level4, Level4n>>),
      Str("abc"), None, Dict(<<[key |-> "1000", val |-> Str("15")]>>) }

\* The tuples handed to Trades: seven items, with a zero price and with a misc
\* of several kinds; six items; eight items
TradeTuples ==
    { Tuple(<<Str("BTCUSD"), price, Num(10), Str("bid"), Str("UID1000"), misc, Num(22)>>) :
        price \in {Num(1000), Num(0), Str("1000")},
        misc \in {None, Str("x"), Dict(<<[key |-> "fee", val |-> Num(1)]>>)} }
    \cup { Tuple(<<Str("BTCUSD"), Num(1000), Num(10), Str("bid"), Str("UID1000"), Num(22)>>),
           Tuple(<<Str("BTCUSD"), Num(1000), Num(10), Str("bid"), Str("UID1000"), None,
                   Num(22), Num(23)>>) }

\* The messages handed to load_from_frames: four JSON frames whose last one,
\* the timestamp, is a number from 0 on, or null
LoadFrames ==
    { << Frame(JStr("testing")), Frame(JStr("NodeY")), Frame(data), Frame(ts) >> :
        data \in { json_dumps(List(<<Str("Raw"), Str("data")>>)),
                   Message_serialize(TopLevel_init(Str("BTCUSD"), Level3, Level3, None, 1).v) },
        ts \in {JNum(n) : n \in 0..MaxTime} \cup {JNull} }

\* The calls made: [op, args]
StructCalls ==
    { [op |-> o, args |-> <<a, b>>] :
        o \in {"add", "sub"}, a \in QuoteSamples({"bid", "ask"}),
        b \in QuoteSamples({"bid", "ask"}) }
    \cup { [op |-> "merge", args |-> cs] :
             cs \in (CandleSamples \X CandleSamples)
                    \cup (CandleSamples \X CandleSamples \X CandleSamples) }
    \cup { [op |-> "book", args |-> <<cls, bids, asks>>] :
             cls \in {"Book", "RawBook"}, bids \in BookSides, asks \in BookSides }
    \cup { [op |-> "from_quote", args |-> <<q, same_side>>] :
             q \in QuoteSamples(Sides), same_side \in BOOLEAN }
    \cup { [op |-> "priced", args |-> <<cls, Str("BTCUSD"), price, size, side, api_ts, ts>>] :
             cls \in {"Quote", "Order"},
             price \in {Num(1000), Str("1000"), None},
             size \in {Num(10), Num(0)},
             side \in {Str(sd) : sd \in Sides \cup {"spaghetti", "BID"}} \cup {None},
             api_ts \in {None, Num(2)}, ts \in {None, Num(2)} }
    \cup { [op |-> "trades", args |-> ts] :
             ts \in {<<>>} \cup {<<t1>> : t1 \in TradeTuples}
                   \cup (TradeTuples \X TradeTuples) }
    \cup { [op |-> "serialize", args |-> <<obj>>] : obj \in TypedPayloads(1) }
    \cup { [op |-> "load", args |-> frames] : frames \in LoadFrames }

\* Each call: the harness notes what it returned or raised
Call_Quote_plus ==
    /\ sOp = "add"
    /\ sOut = Nothing
    /\ sOut' = Quote_plus(sIn[1], sIn[2])
    /\ UNCHANGED <<now, codecVars, recvVars, pubVars, brokerVars, nodeVars, sOp, sIn>>

Call_Quote_minus ==
    /\ sOp = "sub"
    /\ sOut = Nothing
    /\ sOut' = Quote_minus(sIn[1], sIn[2])
    /\ UNCHANGED <<now, codecVars, recvVars, pubVars, brokerVars, nodeVars, sOp, sIn>>

Call_Candle_merge ==
    /\ sOp = "merge"
    /\ sOut = Nothing
    /\ sOut' = Candle_merge(Head(sIn), Tail(sIn), now)
    /\ UNCHANGED <<now, codecVars, recvVars, pubVars, brokerVars, nodeVars, sOp, sIn>>

Call_Book ==
    /\ sOp = "book"
    /\ sOut = Nothing
    /\ sOut' = Book_init(sIn[1], Str("BTCUSD"), sIn[2], sIn[3], None, now)
    /\ UNCHANGED <<now, codecVars, recvVars, pubVars, brokerVars, nodeVars, sOp, sIn>>

Call_Order_from_quote ==
    /\ sOp = "from_quote"
    /\ sOut = Nothing
    /\ sOut' = Order_from_quote(sIn[1], sIn[2], Dict(<<>>), now)
    /\ UNCHANGED <<now, codecVars, recvVars, pubVars, brokerVars, nodeVars, sOp, sIn>>

\* Quote(pair, price, size, side, api_ts=.., ts=..), or Order(...)
Call_PricedMessage ==
    /\ sOp = "priced"
    /\ sOut = Nothing
    /\ sOut' = IF sIn[1] = "Quote"
               THEN Quote_init(sIn[2], sIn[3], sIn[4], sIn[5], None, sIn[6], sIn[7], now)
               ELSE Order_init(sIn[2], sIn[3], sIn[4], sIn[5], sIn[6], sIn[7],
                               Dict(<<>>), now)
    /\ UNCHANGED <<now, codecVars, recvVars, pubVars, brokerVars, nodeVars, sOp, sIn>>

Call_Trades ==
    /\ sOp = "trades"
    /\ sOut = Nothing
    /\ sOut' = Trades_init(sIn, None, now)
    /\ UNCHANGED <<now, codecVars, recvVars, pubVars, brokerVars, nodeVars, sOp, sIn>>

\* obj.serialize(), and type(obj).empty().load(...) of the document it wrote
Call_serialize ==
    /\ sOp = "serialize"
    /\ sOut = Nothing
    /\ sOut' = LET doc == Message_serialize(sIn[1])
               IN  Ok([slots |-> Message_slots(sIn[1].v.cls),
                       doc |-> doc,
                       loaded |-> Message_load(Empty(sIn[1].v.cls, now),
                                               json_loads(doc))])
    /\ UNCHANGED <<now, codecVars, recvVars, pubVars, brokerVars, nodeVars, sOp, sIn>>

\* Envelope.load_from_frames(frames)
Call_load_from_frames ==
    /\ sOp = "load"
    /\ sOut = Nothing
    /\ sOut' = load_from_frames(sIn, now)
    /\ UNCHANGED <<now, codecVars, recvVars, pubVars, brokerVars, nodeVars, sOp, sIn>>

StructTick ==
    /\ Tick
    /\ sOut = Nothing
    /\ UNCHANGED <<codecVars, recvVars, pubVars, brokerVars, nodeVars, structVars>>

InitStructs ==
    /\ now = 1
    /\ CodecInit(Nothing)
    /\ Receiver_init("", {})
    /\ Publisher_init
    /\ PostOffice_init(FALSE)
    /\ Node_init("test", "None", "None")
    /\ \E c \in StructCalls : Struct_init(c.op, c.args)

NextStructs ==
    \/ Call_Quote_plus
    \/ Call_Quote_minus
    \/ Call_Candle_merge
    \/ Call_Book
    \/ Call_Order_from_quote
    \/ Call_PricedMessage
    \/ Call_Trades
    \/ Call_serialize
    \/ Call_load_from_frames
    \/ StructTick

SpecStructs == InitStructs /\ [][NextStructs]_vars

-----------------------------------------------------------------------------
(* Claims about the codec, checked under SpecCodec *)

\* The payload as the decoder reads it off the third frame
DecodedPayload == json_loads(cFrames[3].v)

\* Whether a decoded payload is a list that starts with a registered type tag
HasRegisteredTag(data) ==
    /\ data.k = "list"
    /\ Len(data.v) > 0
    /\ data.v[1].k = "str"
    /\ data.v[1].v \in RegisteredTypes

\* A value with every tuple in it read as a list
RECURSIVE ListForm(_)
ListForm(v) ==
    CASE v.k \in {"list", "tuple"} -> List([i \in 1..Len(v.v) |-> ListForm(v.v[i])])
      [] v.k = "dict" ->
            Dict([i \in 1..Len(v.v) |->
                    [key |-> v.v[i].key, val |-> ListForm(v.v[i].val)]])
      [] OTHER -> v

\* C4: decoding the frames of an envelope whose payload is a string, a number,
\* a list or a mapping gives an envelope with the same topic, the same origin
\* and the same payload.
C4_PlainRoundTrip ==
    (cPc = "decoded" /\ cSent.data.k \in {"str", "num", "list", "dict"}) =>
        /\ cOut.k = "ok"
        /\ cOut.v.topic = cSent.topic
        /\ cOut.v.origin = cSent.origin
        /\ cOut.v.data = cSent.data

\* C5 as claimed: decoding the frames of an envelope whose payload is a typed
\* payload gives an instance of the same type with every field equal to the
\* field of the payload sent, and the same topic and origin.
C5_TypedRoundTripStrict ==
    (cPc = "decoded" /\ cSent.data.k = "obj") =>
        /\ cOut.k = "ok"
        /\ cOut.v.topic = cSent.topic
        /\ cOut.v.origin = cSent.origin
        /\ cOut.v.data.k = "obj"
        /\ cOut.v.data.v.cls = cSent.data.v.cls
        /\ \A s \in DOMAIN cSent.data.v.attrs :
              cOut.v.data.v.attrs[s] = cSent.data.v.attrs[s]

\* C5 as amended: decoding the frames of an envelope whose payload is a typed
\* payload gives an instance of the same type with the same fields, each equal
\* to the field of the payload sent once the tuples in it (the levels of a
\* Book, a RawBook and a TopLevel) are read as lists; topic and origin are
\* unchanged.
C5_TypedRoundTrip ==
    (cPc = "decoded" /\ cSent.data.k = "obj") =>
        /\ cOut.k = "ok"
        /\ cOut.v.topic = cSent.topic
        /\ cOut.v.origin = cSent.origin
        /\ cOut.v.data.k = "obj"
        /\ cOut.v.data.v.cls = cSent.data.v.cls
        /\ DOMAIN cOut.v.data.v.attrs = DOMAIN cSent.data.v.attrs
        /\ \A s \in DOMAIN cSent.data.v.attrs :
              cOut.v.data.v.attrs[s] = ListForm(cSent.data.v.attrs[s])

\* C5 witness: a Book has been encoded and decoded again
C5_Witness ==
    /\ cPc = "decoded"
    /\ cSent.data.k = "obj"
    /\ cSent.data.v.cls = "Book"
    /\ cOut.k = "ok"
    /\ cOut.v.data.k = "obj"

\* C6: decoding four JSON frames whose payload does not start with a
\* registered type tag succeeds and gives the raw decoded payload.
C6_UnknownTagIsRaw ==
    (cPc = "decoded" /\ ~HasRegisteredTag(DecodedPayload)) =>
        /\ cOut.k = "ok"
        /\ cOut.v.data = DecodedPayload

\* C27: convert_to_frames sets the envelope's timestamp to the clock's value
\* at the call and emits that value as the timestamp frame, so the frame is
\* not older than the call; from one encode to the next the timestamp does
\* not decrease; topic, origin and data of the envelope stay as they were, and
\* they are what the first three frames carry.
C27_EncodeRefreshesTs ==
    [][(cPc' = "encoded" /\ cPc /= "encoded") =>
          /\ cEnv'.ts = Num(now)
          /\ cFrames'[4] = Frame(JNum(now))
          /\ cAt > 0 => (cEnv'.ts.v >= cEnv.ts.v /\ cEnv.ts.v = cAt)
          /\ cEnv'.topic = cEnv.topic
          /\ cEnv'.origin = cEnv.origin
          /\ cEnv'.data = cEnv.data
          /\ cEnv'.data = cSent.data
          /\ json_loads(cFrames'[1].v) = cEnv.topic
          /\ json_loads(cFrames'[2].v) = cEnv.origin]_vars

\* C27 witness: an envelope encoded a second time, later than the first
C27_Witness ==
    /\ cPc = "encoded"
    /\ cOut.k = "ok"
    /\ cAt > 1
    /\ cEnv.ts.v > cSent.ts.v
    /\ cFrames[4] = Frame(JNum(cAt))

-----------------------------------------------------------------------------
(* Claims about the Receiver, checked under Spec *)

\* The loop iteration of this step took the oldest message off the socket
Consumed == rInbox /= <<>> /\ rInbox' = Tail(rInbox)

\* That message, decoded
HeadEnvelope == load_from_frames(Head(rInbox), now)

\* Whether the Receiver's allow-list lets an envelope through
InAllowList(e) == rExchanges = {} \/ e.origin.v \in rExchanges

\* C1 as claimed: a loop iteration that receives an envelope older than the
\* timeout clears the running flag and queues nothing.
C1_AnyStaleStops ==
    [][ (Consumed /\ HeadEnvelope.k = "ok" /\ now - HeadEnvelope.v.ts.v > timeout)
            => (~rRunning' /\ rQ' = rQ) ]_vars

\* C1 as amended: a loop iteration that receives an envelope which passes the
\* origin allow-list and is older than the timeout clears the running flag and
\* does not queue the envelope; from then on the flag stays cleared, no message
\* is taken off the socket and no envelope is queued, whatever arrives.
C1_StaleStops ==
    [][ /\ (/\ Consumed
            /\ HeadEnvelope.k = "ok"
            /\ InAllowList(HeadEnvelope.v)
            /\ now - HeadEnvelope.v.ts.v > timeout)
              => (~rRunning' /\ rQ' = rQ /\ rStopped')
        /\ rStopped => (rStopped' /\ ~rRunning' /\ ~Consumed /\ Len(rQ') <= Len(rQ))
      ]_vars

\* C1 witness: the loop stopped on a stale envelope and has ended, and a
\* message that arrived afterwards is still in the socket, undelivered
C1_Witness ==
    /\ rStopped
    /\ rThread = "exited"
    /\ rInbox /= <<>>
    /\ load_from_frames(Head(rInbox), now).k = "ok"

\* C2: a message a peer sends to the connected Receiver is taken by its
\* socket whenever the Receiver's subscription string is a prefix of the
\* envelope's topic.
C2_SubscribedTopicTaken ==
    (/\ netLast.k = "sent"
     /\ netLast.v.connected
     /\ netLast.v.topic.k = "str"
     /\ IsPrefix(rTopics, netLast.v.topic.v))
        => netLast.v.taken

\* C3: no envelope in the Receiver's queue, and none recv() returned, has an
\* origin outside the allow-list; an iteration that receives such an envelope
\* queues nothing and leaves the flag and the thread as they were; without an
\* allow-list every fresh envelope received is queued.
C3_OriginFilter ==
    /\ [](\A i \in 1..Len(rQ) : InAllowList(rQ[i]))
    /\ [](aRet.k = "ok" => InAllowList(aRet.v))
    /\ [][ (Consumed /\ HeadEnvelope.k = "ok" /\ ~InAllowList(HeadEnvelope.v))
              => (rQ' = rQ /\ rRunning' = rRunning /\ rThread' = rThread) ]_vars
    /\ [][ (/\ Consumed
            /\ rExchanges = {}
            /\ HeadEnvelope.k = "ok"
            /\ now - HeadEnvelope.v.ts.v <= timeout)
              => rQ' = Append(rQ, HeadEnvelope.v) ]_vars

\* C3 witness: the loop has just discarded an envelope for its origin and goes on
C3_Witness ==
    /\ rLast = "filtered"
    /\ rThread = "loop"
    /\ rRunning
    /\ rExchanges /= {}

\* Whether a message is malformed: not four frames, or a frame that is no JSON
Malformed(msg) == Len(msg) /= 4 \/ \E i \in 1..Len(msg) : msg[i].k /= "json"

\* C7: a loop iteration that receives a malformed message discards it and the
\* loop goes on: the thread stays in the loop with the flag as it was.
C7_MalformedSkipped ==
    [][ (Consumed /\ Malformed(Head(rInbox)))
            => (rThread' = "loop" /\ rRunning' = rRunning /\ rQ' = rQ) ]_vars

\* C10: recv() returns None when the queue is empty, also before start();
\* otherwise it removes and returns the oldest envelope; its q.get(False)
\* always finds an envelope, so it neither waits nor raises Empty.
C10_RecvNeverBlocks ==
    /\ [](aPc = "get" => rQ /= <<>>)
    /\ [](aRet.k /= "exc")
    /\ [][ (aPc \in {"idle", "ret"} /\ (aPc' /= aPc \/ aRet' /= aRet) /\ rQ = <<>>)
              => (aRet' = None /\ aPc' = "ret" /\ rQ' = rQ) ]_vars
    /\ [][ (aPc \in {"idle", "ret"} /\ (aPc' /= aPc \/ aRet' /= aRet) /\ rQ /= <<>>)
              => (aPc' = "get" /\ rQ' = rQ) ]_vars
    /\ [][ (aPc = "get" /\ aPc' /= aPc)
              => (aPc' = "ret" /\ aRet' = Ok(Head(rQ)) /\ rQ' = Tail(rQ)) ]_vars

\* C10 witness: recv() has returned the oldest envelope while another one,
\* put by the loop, is still queued
C10_Witness ==
    /\ aPc = "ret"
    /\ aRet.k = "ok"
    /\ rQ /= <<>>

\* Whether the loop accepts an envelope: it passes the allow-list and is fresh
Accepted(e) == InAllowList(e) /\ e.ts.k = "num" /\ now - e.ts.v <= timeout

\* C11: the queue between the loop and recv() is a FIFO of the accepted
\* envelopes: the queue changes only by the loop appending the envelope it has
\* just accepted or by recv() removing the head, which recv() returns; every
\* accepted envelope is appended; and recv()'s result changes only to None on
\* an empty queue or to the head it removes. So successive recv() calls return
\* the accepted envelopes in the order of acceptance, each once.
C11_FifoDelivery ==
    /\ [][ rQ' /= rQ =>
              \/ /\ Consumed /\ HeadEnvelope.k = "ok" /\ Accepted(HeadEnvelope.v)
                 /\ rQ' = Append(rQ, HeadEnvelope.v)
                 /\ aRet' = aRet
              \/ /\ rQ /= <<>> /\ rQ' = Tail(rQ)
                 /\ aRet' = Ok(Head(rQ))
                 /\ rInbox' = rInbox ]_vars
    /\ [][ (Consumed /\ HeadEnvelope.k = "ok" /\ Accepted(HeadEnvelope.v))
              => rQ' = Append(rQ, HeadEnvelope.v) ]_vars
    /\ [][ aRet' /= aRet =>
              \/ rQ = <<>> /\ aRet' = None /\ rQ' = rQ
              \/ rQ /= <<>> /\ aRet' = Ok(Head(rQ)) /\ rQ' = Tail(rQ) ]_vars

\* C11 witness: two different envelopes were accepted; recv() has returned one
\* and the other, accepted later, is the head of the queue
C11_Witness ==
    /\ aPc = "ret"
    /\ aRet.k = "ok"
    /\ Len(rQ) = 1
    /\ rQ[1] /= aRet.v
    /\ rQ[1].ts.v >= aRet.v.ts.v


\* C12: a stop() called on a started Receiver eventually returns, with the
\* run loop ended and the running flag cleared.
C12_StopReturns ==
    [](rStop = "joining" =>
          <>(rStop = "returned" /\ ~rRunning /\ rThread \in {"exited", "died"}))

-----------------------------------------------------------------------------
(* Claims about the Publisher, checked under SpecPub *)

\* C8: publish() returns False when the socket is not established (before
\* the run method has set it up, and after the run method has ended) and
\* otherwise returns True.
C8_PublishResult ==
    pCalls > 0 =>
        /\ pCall = "idle"
        /\ pRet = IF pAt.v.sock = "None" \/ pAt.v.thread = "died"
                  THEN "False" ELSE "True"

\* C9: no caller is ever left waiting inside publish().
C9_PublishNeverWaits == pCall /= "sending"

\* C13: once a stop() called on a started Publisher has returned, the running
\* flag is cleared, the outbound socket is closed or released and the worker
\* has ended; and a publish() called after that returns False.
C13_StopStops ==
    /\ pStop = "returned" =>
          (~pRunning /\ pSock \in {"None", "closed"} /\ pThread = "died")
    /\ (pCalls > 0 /\ pAt.v.stop = "returned") =>
          (pCall = "idle" /\ pRet = "False")

\* C15: the worker of a started Publisher ends only after a stop() request
\* (nothing is handed off or transmitted here, so no transport error occurs):
\* while stop() has not been called the worker has not ended.
C15_IdleKeepsRunning ==
    (pStop = "idle" /\ pCalls = 0) => pThread /= "died"

-----------------------------------------------------------------------------
(* Claims about the PostOffice, checked under SpecBroker *)

\* The messages of a sequence that are subscription messages, and the others
SubsOf(q) == SelectSeq(q, IsSubMessage)
DataOf(q) == SelectSeq(q, LAMBDA m : ~IsSubMessage(m))

\* C16: the relay sends every message it takes from the publisher-facing
\* socket on the subscriber-facing socket, with its frames as they arrived
\* and behind the messages it sent before, and takes nothing off that socket
\* otherwise; it does the same with subscription messages in the other
\* direction; with a debug address the debug feed holds every message relayed,
\* in order, and without one it holds nothing.
C16_RelayUnchangedInOrder ==
    /\ [][ (bOut' /= bOut \/ Len(bIn') < Len(bIn))
              => (bIn /= <<>> /\ bOut' = Append(bOut, Head(bIn)) /\ bIn' = Tail(bIn)) ]_vars
    /\ [][ (bSubOut' /= bSubOut \/ Len(bSubIn') < Len(bSubIn))
              => (/\ bSubIn /= <<>>
                  /\ bSubOut' = Append(bSubOut, Head(bSubIn))
                  /\ bSubIn' = Tail(bSubIn)) ]_vars
    /\ [](bDebug => (DataOf(bCap) = bOut /\ SubsOf(bCap) = bSubOut))
    /\ [](~bDebug => bCap = <<>>)

\* C16 witness: with a debug address, two different messages were relayed to
\* the subscribers' side after a subscription was relayed upstream
C16_Witness ==
    /\ bDebug
    /\ Len(bOut) = 2
    /\ bOut[1] /= bOut[2]
    /\ Len(bCap) = 3
    /\ bSubOut /= <<>>

\* C17: once stop() has returned, or an interrupt has ended the relay, the
\* relay thread has ended normally and no socket the broker opened is open.
C17_StopClosesAll ==
    (bStop = "returned" \/ bThread = "interrupted") =>
        /\ bThread = "exited"
        /\ "open" \notin {bXpub, bXsub, bDbg}

-----------------------------------------------------------------------------
(* Claims about the Node, checked under SpecNode *)

\* Whether the Receiver and the Publisher are running: the worker thread is
\* alive; and whether anything of them is left running: a live thread or a
\* running flag still set
ReceiverAlive == rThread \in {"started", "loop"}
PublisherAlive == pThread \in {"started", "setup"}

\* C18: for a Node built from a Receiver and a Publisher: after start() (or
\* __enter__) has returned and before stop() is called, both are running;
\* after stop() (or __exit__) has returned, neither is running.
C18_StartsAndStopsAll ==
    ({nKinds[1], nKinds[2]} = {"Receiver", "Publisher"} /\ nPc = "idle" /\ nRet.k = "ok") =>
        /\ (nRet.op = "start" /\ "stop" \notin nDone) =>
                (ReceiverAlive /\ PublisherAlive)
        /\ (nRet.op = "stop" /\ "start" \in nDone) =>
                (~ReceiverAlive /\ ~PublisherAlive /\ ~rRunning /\ ~pRunning)

\* C19: Node.publish raises NotImplementedError exactly when the Node's
\* publisher has no publish method, and Node.recv when its receiver has no
\* recv method; a call that does not raise is carried out by the Publisher's
\* publish() or the Receiver's recv(), and those are called for nothing else.
C19_UnsupportedRaises ==
    /\ [][ (nRet' /= nRet /\ nRet'.op = "publish") =>
              (/\ nRet' = Raised("publish", "NotImplementedError")
               /\ nKinds[2] /= "Publisher"
               /\ pCalls' = pCalls) ]_vars
    /\ [][ (nRet' /= nRet /\ nRet'.op = "recv") =>
              (/\ nRet' = Raised("recv", "NotImplementedError")
               /\ nKinds[1] /= "Receiver"
               /\ aRet' = aRet /\ aPc' = aPc) ]_vars
    /\ [][ pCalls' /= pCalls => (nKinds[2] = "Publisher" /\ nRet' = nRet) ]_vars
    /\ [][ (aPc' /= aPc \/ aRet' /= aRet) => (nKinds[1] = "Receiver" /\ nRet' = nRet) ]_vars
    /\ [](nKinds[2] = "Publisher" => ~(nRet.k = "exc" /\ nRet.op = "publish"))
    /\ [](nKinds[1] = "Receiver" => ~(nRet.k = "exc" /\ nRet.op = "recv"))

\* C19 witness: on a Node with a Receiver and no publisher, recv() was
\* delegated and returned None, and publish() raised NotImplementedError
C19_Witness ==
    /\ nKinds = <<"Receiver", "None">>
    /\ aPc = "ret" /\ aRet = None
    /\ nRet = Raised("publish", "NotImplementedError")

\* C20: when the start() or stop() of the facility at hand has raised, the
\* Node's next step logs "Could not start all facilities!" (or "stop") and
\* raises that error to the caller; and start() and stop() return normally
\* only when every facility they found was started or stopped.
C20_LifecycleErrorRaised ==
    /\ [][ (FacilityError /= "" /\ nodeVars' /= nodeVars) =>
              (/\ nPc' = "idle"
               /\ nRet' = Raised(IF nPc = "starting" THEN "start" ELSE "stop",
                                 FacilityError)
               /\ nLog' = IF nPc = "starting" THEN "Could not start all facilities!"
                                              ELSE "Could not stop all facilities!") ]_vars
    /\ [][ FacilityError /= "" => nIdx' = nIdx ]_vars
    /\ []((nRet.k = "ok" /\ nRet.op \in {"start", "stop"}) =>
            /\ "Invalid" \notin {nKinds[1], nKinds[2]}
            /\ nRet.op = "stop" => (rStop /= "RuntimeError" /\ pStop /= "RuntimeError"))

\* C20 witness: stop() on a Node whose Receiver was never started has raised
\* the RuntimeError of Thread.join, and logged it
C20_Witness ==
    /\ nRet = Raised("stop", "RuntimeError")
    /\ nLog = "Could not stop all facilities!"
    /\ rStop = "RuntimeError"
    /\ nPc = "idle"

-----------------------------------------------------------------------------
(* Claims about the typed payloads, checked under SpecStructs *)

\* The call has been made
Called(op) == sOp = op /\ sOut.k /= "nothing"

\* The number a decimal str denotes
NumOf(str) == CHOOSE n \in 0..2000 : ToString(n) = str

\* C21: for two Quotes a and b with equal pair, price and side, a + b is a
\* Quote with that pair, price and side whose size is the sum of the two
\* sizes, and a - b one whose size is the difference; differing pairs raise
\* the incompatible-pairs error, differing sides the incompatible-sides
\* error, and equal sides with differing prices the price-mismatch error.
C21_QuoteArithmetic ==
    (Called("add") \/ Called("sub")) =>
        LET a == sIn[1].v.attrs
            b == sIn[2].v.attrs
            size == IF sOp = "add" THEN NumOf(a.size.v) + NumOf(b.size.v)
                    ELSE NumOf(a.size.v) - NumOf(b.size.v)
        IN  IF a.pair /= b.pair
            THEN sOut.k = "exc" /\ sOut.v = "IncompatiblePairsError"
            ELSE IF a.side /= b.side
            THEN sOut.k = "exc" /\ sOut.v = "IncompatibleSidesError"
            ELSE IF a.price /= b.price
            THEN sOut.k = "exc" /\ sOut.v = "ValueError"
            ELSE /\ sOut.k = "ok"
                 /\ sOut.v.v.cls = "Quote"
                 /\ sOut.v.v.attrs.pair = a.pair
                 /\ sOut.v.v.attrs.price = a.price
                 /\ sOut.v.v.attrs.side = a.side
                 /\ sOut.v.v.attrs.size = Str(ToString(size))

\* The greatest and the smallest of a non-empty set of numbers
MaxOf(S) == CHOOSE x \in S : \A y \in S : y <= x
MinOf(S) == CHOOSE x \in S : \A y \in S : x <= y

\* C22: merging candles gives a Candle whose open is the open of a candle
\* with the smallest ts, whose close is the close of a candle with the
\* largest ts, whose high is the greatest of the highs and whose low is the
\* smallest of the lows, as numbers, and whose frame is
\* (latest.ts - earliest.ts) + latest.frame.
C22_CandleMerge ==
    Called("merge") =>
        LET n == Len(sIn)
            c(i) == sIn[i].v.attrs
            earliest == MinOf({c(i).ts.v : i \in 1..n})
            latest   == MaxOf({c(i).ts.v : i \in 1..n})
            high == MaxOf({NumOf(c(i).high.v) : i \in 1..n})
            low  == MinOf({NumOf(c(i).low.v) : i \in 1..n})
        IN  /\ sOut.k = "ok"
            /\ sOut.v.v.cls = "Candle"
            /\ \E i \in 1..n : c(i).ts.v = earliest /\ sOut.v.v.attrs.open = c(i).open
            /\ \E i \in 1..n :
                    /\ c(i).ts.v = latest
                    /\ sOut.v.v.attrs.close = c(i).close
                    /\ sOut.v.v.attrs.frame = Num((latest - earliest) + c(i).frame.v)
            /\ sOut.v.v.attrs.high = Str(ToString(high))
            /\ sOut.v.v.attrs.low = Str(ToString(low))

\* A level that has not exactly `arity` elements, or has an element that is
\* no str
BadLevel(arity, level) ==
    Len(level.v) /= arity \/ \E j \in 1..Len(level.v) : level.v[j].k /= "str"

\* Bids or asks that are no list or tuple, or hold a bad level
BadSide(arity, side) ==
    side.k \notin {"list", "tuple"} \/ \E i \in 1..Len(side.v) : BadLevel(arity, side.v[i])

\* C23: constructing a Book (three elements a level) or a RawBook (four)
\* whose bids or asks are no list or tuple, or hold a level of another length
\* or with an element that is no str, raises TypeError and gives no instance;
\* otherwise it gives an instance of the class that holds the levels given,
\* element for element.
C23_BookValidation ==
    Called("book") =>
        LET arity == IF sIn[1] = "RawBook" THEN 4 ELSE 3
        IN  IF BadSide(arity, sIn[2]) \/ BadSide(arity, sIn[3])
            THEN sOut.k = "exc" /\ sOut.v = "TypeError"
            ELSE /\ sOut.k = "ok"
                 /\ sOut.v.v.cls = sIn[1]
                 /\ ListForm(sOut.v.v.attrs.bids) = ListForm(sIn[2])
                 /\ ListForm(sOut.v.v.attrs.asks) = ListForm(sIn[3])

\* C23 witness: a RawBook was refused for a level of three elements among
\* its asks, its bids being well-shaped
C23_Witness ==
    /\ Called("book")
    /\ sIn[1] = "RawBook"
    /\ sIn[2] = List(<<Level4>>)
    /\ sIn[3] = List(<<Level3, Level4>>)
    /\ sOut.k = "exc"

\* The sides of one who buys and of one who sells
BuyingSides == {"bid", "buy"}
SellingSides == {"ask", "sell"}

\* C24: Order.from_quote(q) gives an Order with the pair, price and size of q
\* on the opposite side: "ask" for a "bid" quote, "bid" for an "ask" quote,
\* and a selling side for a buying one and a buying side for a selling one;
\* with same_side=True the Order has q's side; the side is a valid side in
\* both cases.
C24_FromQuote ==
    Called("from_quote") =>
        LET q == sIn[1].v.attrs
            same_side == sIn[2]
        IN  /\ sOut.k = "ok"
            /\ sOut.v.v.cls = "Order"
            /\ sOut.v.v.attrs.pair = q.pair
            /\ sOut.v.v.attrs.price = q.price
            /\ sOut.v.v.attrs.size = q.size
            /\ sOut.v.v.attrs.side.v \in Sides
            /\ same_side => sOut.v.v.attrs.side = q.side
            /\ ~same_side =>
                  /\ q.side.v = "bid" => sOut.v.v.attrs.side.v = "ask"
                  /\ q.side.v = "ask" => sOut.v.v.attrs.side.v = "bid"
                  /\ q.side.v \in BuyingSides => sOut.v.v.attrs.side.v \in SellingSides
                  /\ q.side.v \in SellingSides => sOut.v.v.attrs.side.v \in BuyingSides

\* C25: constructing a Quote or an Order with a side outside bid, ask, buy,
\* sell and N/A raises ValueError and gives no instance; with a valid side
\* the instance holds price and size as str (a number as its decimal
\* writing), and ts and api_ts are timestamps: the one given, or the clock's
\* value at the call.
C25_PricedConstruction ==
    Called("priced") =>
        LET price == sIn[3]
            size == sIn[4]
            side == sIn[5]
            api_ts == sIn[6]
            ts == sIn[7]
        IN  IF side.k /= "str" \/ side.v \notin {"bid", "ask", "buy", "sell", "N/A"}
            THEN sOut.k = "exc" /\ sOut.v = "ValueError"
            ELSE /\ sOut.k = "ok"
                 /\ sOut.v.v.cls = sIn[1]
                 /\ sOut.v.v.attrs.side = side
                 /\ sOut.v.v.attrs.price.k = "str"
                 /\ sOut.v.v.attrs.size.k = "str"
                 /\ price.k = "str" => sOut.v.v.attrs.price = price
                 /\ price.k = "num" => NumOf(sOut.v.v.attrs.price.v) = price.v
                 /\ size.k = "num" => NumOf(sOut.v.v.attrs.size.v) = size.v
                 /\ sOut.v.v.attrs.ts = (IF ts.k = "num" THEN ts ELSE Num(now))
                 /\ sOut.v.v.attrs.api_ts = (IF api_ts.k = "num" THEN api_ts ELSE Num(now))

\* C25 witness: Quote('BTCUSD', 1000, 10, 'spaghetti') raised
C25_Witness ==
    /\ Called("priced")
    /\ sIn[1] = "Quote"
    /\ sIn[3] = Num(1000)
    /\ sIn[5] = Str("spaghetti")
    /\ sOut.k = "exc"

\* C26: Trades(*trades) takes tuples of seven items (pair, price, size, side,
\* uid, misc, ts) and stores each with every item but misc converted to str,
\* whatever its value, zero included, and misc as it was given; a tuple of
\* another length is refused and no instance results.
C26_TradesStringified ==
    Called("trades") =>
        IF \E i \in 1..Len(sIn) : Len(sIn[i].v) /= 7
        THEN sOut.k = "exc"
        ELSE /\ sOut.k = "ok"
             /\ sOut.v.v.cls = "Trades"
             /\ Len(sOut.v.v.attrs.trades.v) = Len(sIn)
             /\ \A i \in 1..Len(sIn) :
                   LET given == sIn[i].v
                       stored == sOut.v.v.attrs.trades.v[i].v
                   IN  /\ Len(stored) = 7
                       /\ stored[6] = given[6]
                       /\ \A j \in {1, 2, 3, 4, 5, 7} :
                             /\ stored[j].k = "str"
                             /\ given[j].k = "str" => stored[j] = given[j]
                             /\ given[j].k = "num" => NumOf(stored[j].v) = given[j].v

\* The positions at which field f stands in a list of slots
Positions(slots, f) == {i \in 1..Len(slots) : slots[i] = f}

C37_WireTimestampKept ==
    (Called("load") /\ sIn[4].v.k = "jnum" /\ sOut.k = "ok")
        => sOut.v.ts = Num(sIn[4].v.v)

-----------------------------------------------------------------------------
(* Claims about the two workers' threads, flags and sockets *)

\* The worker's run method has ended: its thread was started and is alive no more
ReceiverEnded == rThread \in {"exited", "died"}
PublisherEnded == pThread = "died"

\* C34: in every state in which a worker's run has ended, that worker's
\* running flag is cleared.
C34_EndedNotRunning ==
    /\ ReceiverEnded => ~rRunning
    /\ PublisherEnded => ~pRunning

\* C31: while a worker's thread is alive, its socket is operated on by that
\* thread alone: a step in which the Publisher's socket changes, or in which the
\* Receiver's socket changes or gives up a message, is no step of a caller
\* inside publish(), recv(), stop() or join().
C31_SocketOwnedByWorker ==
    [][ /\ (PublisherAlive /\ pSock' /= pSock)
              => (pStop' = pStop /\ pCall' = pCall /\ pCalls' = pCalls)
        /\ (ReceiverAlive /\ (rSock' /= rSock \/ (rInbox' /= rInbox /\ sent' = sent)))
              => (rStop' = rStop /\ aPc' = aPc /\ aRet' = aRet)
      ]_vars

-----------------------------------------------------------------------------
(* Claims about Node.publish and Node.run, checked under SpecRun *)

ReceiverPhase ==
    CASE rThread \in {"new", "started"} -> 0
      [] rThread = "loop" -> 1
      [] OTHER -> 2

PublisherPhase ==
    CASE pThread \in {"new", "started"} -> 0
      [] pThread = "setup" -> 1
      [] OTHER -> 2

\* C32: the lifecycles of the Receiver and of the Publisher only move forward;
\* the running flag is set once, on the way from idle to running; and a worker
\* whose thread has ended stays ended, its flag is not set again, its socket
\* is not opened again and nothing is appended to the Receiver's FIFO, whatever
\* start(), stop(), publish() and recv() calls follow
C32_LifecycleForward ==
    [][ /\ ReceiverPhase' >= ReceiverPhase
        /\ PublisherPhase' >= PublisherPhase
        /\ (rRunning' /\ ~rRunning) => (ReceiverPhase = 0 /\ ReceiverPhase' = 1)
        /\ (pRunning' /\ ~pRunning) => (PublisherPhase = 0 /\ PublisherPhase' = 1)
        /\ ReceiverEnded =>
              /\ rThread' = rThread
              /\ rRunning' => rRunning
              /\ rSock' = rSock
              /\ rQ' = rQ \/ (rQ /= <<>> /\ rQ' = Tail(rQ))
        /\ PublisherEnded =>
              /\ pThread' = pThread
              /\ pRunning' => pRunning
              /\ pSock' \in {pSock, "closed"} ]_vars

\* Both threads have ended, the Receiver by the staleness exit, and publish()
\* and stop() have been called after that
C32_Witness ==
    /\ rThread = "exited" /\ rStopped
    /\ pThread = "died"
    /\ pCalls > 0 /\ pAt.k = "call" /\ pAt.v.thread = "died"
    /\ nRet = Returned("stop", None)

(* Claims about the order and the strictness of the Receiver's two tests *)

\* The step is an iteration of the run loop that handles the message at the
\* head of the SUB socket's queue
HandlesHead == rThread = "loop" /\ rRunning /\ rInbox /= <<>> /\ rInbox' = Tail(rInbox)

\* The envelope the frames at the head of the queue decode to
HeadLoaded == load_from_frames(Head(rInbox), now)

\* C35: the origin filter comes before the staleness check. An iteration that
\* handles an envelope older than the timeout whose origin is outside the
\* allow-list discards it and leaves the flag, the thread and the FIFO as they
\* are; and a Receiver that has discarded such an envelope and is still
\* running appends a later fresh envelope of an allowed origin to its FIFO
C35_FilterBeforeStaleness ==
    [][ /\ ( /\ HandlesHead
             /\ HeadLoaded.k = "ok"
             /\ ~OriginAllowed(rExchanges, HeadLoaded.v)
             /\ FilteredStale(Head(rInbox), now) )
            => ( /\ rRunning' /\ rThread' = "loop" /\ rQ' = rQ
                 /\ rStopped' = rStopped /\ rDropped' /\ rLast' = "filtered" )
        /\ ( /\ rDropped
             /\ HandlesHead
             /\ HeadLoaded.k = "ok"
             /\ OriginAllowed(rExchanges, HeadLoaded.v)
             /\ HeadLoaded.v.ts.k = "num"
             /\ ~IsStale(HeadLoaded.v, now) )
            => ( /\ rQ' = Append(rQ, HeadLoaded.v)
                 /\ rRunning' /\ rThread' = "loop" ) ]_vars

\* The loop has discarded a stale envelope for its origin, has gone on, and
\* its last iteration delivered an envelope
C35_Witness ==
    /\ rDropped /\ ~rStopped
    /\ rRunning /\ rThread = "loop"
    /\ rLast = "put" /\ rQ /= <<>>
    /\ rQ[Len(rQ)].origin.v \in rExchanges

\* The age of the envelope at the head of the queue, by the Receiver's clock
HeadAge == now - HeadLoaded.v.ts.v

\* C36: the staleness comparison is strict. An iteration that handles an
\* envelope of an allowed origin appends it to the FIFO and leaves the flag set
\* when its age is at most the timeout, an age equal to the timeout and the
\* negative age of a timestamp in the future included; it clears the flag and
\* appends nothing only when the age is greater than the timeout
C36_StrictStaleness ==
    [][ ( /\ HandlesHead
          /\ HeadLoaded.k = "ok"
          /\ OriginAllowed(rExchanges, HeadLoaded.v)
          /\ HeadLoaded.v.ts.k = "num" )
        => IF HeadAge <= timeout
           THEN /\ rQ' = Append(rQ, HeadLoaded.v)
                /\ rRunning' /\ rThread' = "loop" /\ rStopped' = rStopped
           ELSE /\ rQ' = rQ
                /\ ~rRunning' /\ rStopped' ]_vars

\* The loop has delivered an envelope at an age equal to the timeout and one
\* stamped a second ahead of its clock, and the Receiver runs
C36_Witness ==
    /\ rRunning /\ rThread = "loop" /\ ~rStopped
    /\ rLast = "put" /\ Len(rQ) = 2
    /\ rAges = {timeout, -1}

(* Claims about what stays in place: the FIFO at a stop, and the effects of *)
(* calls that have nothing to do                                            *)

\* The step is the application thread entering recv()
RecvCalled == aPc /= "get" /\ (aPc' /= aPc \/ aRet' /= aRet)

\* C38: the envelopes in the FIFO when the Receiver is stopped or stops itself
\* stay retrievable. No step that changes the flag, the thread or the state of
\* stop() changes the FIFO; once the thread has ended the FIFO only loses its
\* head, to the recv() call that returns it; and recv() on the ended
\* Receiver's empty FIFO returns None
C38_QueueSurvivesStop ==
    [][ /\ (rStop' /= rStop \/ rThread' /= rThread \/ rRunning' /= rRunning) => rQ' = rQ
        /\ (ReceiverEnded \/ rStopped \/ rStop /= "idle") =>
              \/ rQ' = rQ
              \/ /\ Len(rQ') = Len(rQ) + 1 /\ SubSeq(rQ', 1, Len(rQ)) = rQ
                 /\ rRunning /\ rThread = "loop"
              \/ /\ rQ /= <<>> /\ rQ' = Tail(rQ)
                 /\ aPc = "get" /\ aPc' = "ret" /\ aRet' = Ok(Head(rQ))
        /\ ReceiverEnded => Len(rQ') <= Len(rQ)
        /\ (ReceiverEnded /\ RecvCalled) =>
              IF rQ = <<>> THEN aPc' = "ret" /\ aRet' = None
              ELSE aPc' = "get" /\ aRet' = aRet ]_vars

\* stop() has returned and the thread has ended; recv() has returned the
\* envelope delivered first and the one delivered after it is still in the
\* FIFO
C38_Witness ==
    /\ rThread = "exited" /\ rStop = "returned"
    /\ aPc = "ret" /\ aRet.k = "ok"
    /\ Len(rQ) = 1
    /\ aRet.v.ts.v < rQ[1].ts.v

\* C39: a publish() call that returns False leaves the envelope as it was
\* handed over, timestamp included, puts nothing on the handoff and leaves the
\* Publisher as it was; a recv() call on an empty FIFO returns None and leaves
\* the FIFO, the flag, the thread and the socket of the Receiver as they were
C39_NoEffectCalls ==
    [][ /\ (pCalls' /= pCalls /\ pRet' = "False") =>
              /\ pEnv' = pAt'.v.env
              /\ pCall' = "idle"
              /\ pThread' = pThread /\ pRunning' = pRunning
              /\ pSock' = pSock /\ pStop' = pStop
        /\ (RecvCalled /\ rQ = <<>>) =>
              /\ aPc' = "ret" /\ aRet' = None
              /\ rQ' = <<>>
              /\ rRunning' = rRunning /\ rThread' = rThread
              /\ rSock' = rSock /\ rStop' = rStop ]_vars

\* publish() has returned False on an envelope built a second or more before
\* the call, and recv() has returned None on the running Receiver
C39_Witness ==
    /\ pCalls > 0 /\ pRet = "False" /\ pCall = "idle"
    /\ pEnv.ts.v < now
    /\ aPc = "ret" /\ aRet = None
    /\ rRunning /\ rThread = "loop" /\ rQ = <<>>

(* Claims about the order in which the Node goes through its facilities, *)
(* checked under SpecAbort                                                *)

\* The step is the Node calling start(), or stop(), on its publisher
NodeStartsPublisher == nPc = "starting" /\ pThread = "new" /\ pThread' /= "new"

NodeStopsPublisher == nPc = "stopping" /\ pStop = "idle" /\ pStop' /= "idle"

\* The Node has a Receiver whose start(), or stop(), was called and has returned
ReceiverStartReturned == "Receiver" \in {nKinds[1], nKinds[2]} /\ rThread /= "new"

ReceiverStopReturned == "Receiver" \in {nKinds[1], nKinds[2]} /\ rStop = "returned"

\* The step is a Node call raising the error of its receiver's start() or stop()
ReceiverCallRaises ==
    /\ nRet' /= nRet /\ nRet'.k = "exc" /\ nRet'.op \in {"start", "stop"}
    /\ nKinds[nIdx] /= "Publisher"

\* C40: the Node goes through its facilities receiver first. It calls its
\* publisher's start() only when its receiver's start() has returned, and its
\* publisher's stop() only when its receiver's stop() has returned; and when
\* the receiver's call raises, the Node call ends there and undoes nothing:
\* both workers and the Node's flag stay as they are, the flag set after
\* start() and cleared after stop(), the publisher not started by a start()
\* that raised and not stopped by a stop() that raised
C40_ReceiverFirstNoRollback ==
    [][ /\ NodeStartsPublisher => ReceiverStartReturned
        /\ NodeStopsPublisher => ReceiverStopReturned
        /\ ReceiverCallRaises =>
              /\ nPc' = "idle"
              /\ nRunning' = nRunning /\ nRunning = (nRet'.op = "start")
              /\ pThread' = pThread /\ pRunning' = pRunning
              /\ pSock' = pSock /\ pStop' = pStop
              /\ rThread' = rThread /\ rRunning' = rRunning /\ rStop' = rStop
              /\ nRet'.op = "start" => pThread = "new"
              /\ nRet'.op = "stop" => pStop = "idle" ]_vars

\* start() came back without starting the publisher, the application started
\* it, and stop() has raised at the receiver: the publisher's flag is set and
\* its stop() was not called
C40_Witness ==
    /\ nPc = "idle" /\ nDone = {"start", "stop"}
    /\ nRet.k = "exc" /\ nRet.op = "stop"
    /\ ~nRunning
    /\ pThread /= "new" /\ pRunning /\ pStop = "idle"

=============================================================================
